---------------------------- MODULE Spec2Model ----------------------------
(***************************************************************************)
(* Model of the image-checker metadata core: container sniffing, the PNG   *)
(* chunk walk, the JPEG segment walks, the TIFF/IFD decoder for DPI, the   *)
(* metadata assembler (extractMetadata) and the EXIF merge of injectExif.  *)
(*                                                                         *)
(* Conventions.                                                            *)
(*  - A buffer is a sequence of bytes 0..255; JavaScript index i is        *)
(*    element i+1.  A read outside the buffer yields Undefined, as a       *)
(*    Uint8Array does.                                                     *)
(*  - null / undefined results are the empty tuple Null; a present value v *)
(*    is the one-element tuple <<v>>.                                      *)
(*  - DPI values are kept in hundredths (30000 is 300.00), computed with   *)
(*    exact decimal arithmetic.                                            *)
(*  - JavaScript numbers are doubles, so offsets never wrap; the inputs    *)
(*    keep every 32-bit field within the range of TLC's integers.          *)
(***************************************************************************)
EXTENDS Integers, Sequences, FiniteSets, TLC

VARIABLES
    input,      \* how the file was laid out (kept to state the claims)
    bytes,      \* the file's bytes (new Uint8Array(arrayBuffer))
    pc,         \* position inside extractMetadata
    format,     \* result of detectFormat
    offset,     \* loop variable of the walk in progress (0 outside a walk)
    trail,      \* offsets at which the walk in progress began an iteration
    calls,      \* probes invoked so far, in order
    dpi,        \* { dpiX, dpiY, dpiSource } of detectDpi
    extras,     \* the EXIF extras spread into the record
    probe,      \* how each probe ended, and what rejected the promise
    jpegBuffer,   \* injectExif's jpegBuffer, as what piexif.load answers for it
    fields,       \* injectExif's { make, model, software, lat, lon }
    existingExif, \* what piexif.load answered
    exifObj,      \* the directories injectExif builds: '0th' and 'GPS'
    result,       \* what injectExif returns: a buffer or null
    ipc,          \* position inside injectExif
    applied,      \* injectExif calls completed on this image before the current one
    ui,           \* ImageInspector's state, and its extractions in flight
    post          \* position and locals of the export handler POST

readVars == <<input, bytes, pc, format, offset, trail, calls, dpi, extras, probe>>

writeVars == <<jpegBuffer, fields, existingExif, exifObj, result, ipc, applied>>

hostVars == <<ui, post>>

vars == <<readVars, writeVars, hostVars>>

(***************************************************************************)
(* Bounds of the model.                                                    *)
(***************************************************************************)
MaxChunks == 2      \* PNG chunks laid out after the signature
MaxSegs == 2        \* JPEG segments laid out after SOI
MaxSteps == 12      \* loop iterations followed in one walk
MaxApplications == 2  \* injectExif calls on its own output that are followed
MaxSelections == 3    \* files picked or dropped in ImageInspector

(***************************************************************************)
(* JavaScript values.                                                      *)
(***************************************************************************)
Undefined == -1

Null == <<>>

Some(v) == <<v>>

At(b, i) == IF i >= 0 /\ i < Len(b) THEN b[i + 1] ELSE Undefined

\* ToInt32 of a byte read: undefined becomes 0 under << and |
ToInt32(x) == IF x = Undefined THEN 0 ELSE x

\* String.fromCharCode of a byte read: undefined becomes char code 0
fromCharCode(x) == IF x = Undefined THEN 0 ELSE x

\* (b3 << 24) | (b2 << 16) | (b1 << 8) | b0 as a signed 32-bit integer
Or32(b3, b2, b1, b0) ==
    (IF b3 >= 128 THEN b3 - 256 ELSE b3) * 16777216 + b2 * 65536 + b1 * 256 + b0

readUint16(b, o, littleEndian) ==
    IF littleEndian
    THEN ToInt32(At(b, o)) + ToInt32(At(b, o + 1)) * 256
    ELSE ToInt32(At(b, o)) * 256 + ToInt32(At(b, o + 1))

readUint32(b, o, littleEndian) ==
    IF littleEndian
    THEN Or32(ToInt32(At(b, o + 3)), ToInt32(At(b, o + 2)),
              ToInt32(At(b, o + 1)), ToInt32(At(b, o)))
    ELSE Or32(ToInt32(At(b, o)), ToInt32(At(b, o + 1)),
              ToInt32(At(b, o + 2)), ToInt32(At(b, o + 3)))

\* Math.round(n / d) for d > 0: floor(n/d + 1/2)
MathRound(n, d) == (2 * n + d) \div (2 * d)

\* a faulty round2 that truncates towards minus infinity instead of rounding
round2Truncating(n, d) == (100 * n) \div d

\* round2(n / d), in hundredths: Math.round((n/d) * 100) / 100
round2(n, d) == IF d > 0 THEN MathRound(100 * n, d) ELSE MathRound(-100 * n, -d)

\* String.fromCharCode(bytes[o], ..., bytes[o + n - 1])
chars(b, o, n) == [i \in 1..n |-> fromCharCode(At(b, o + i - 1))]

(***************************************************************************)
(* ASCII literals of the source.                                           *)
(***************************************************************************)
Str_pHYs == <<112, 72, 89, 115>>
Str_WEBP == <<87, 69, 66, 80>>
Str_JFIF0 == <<74, 70, 73, 70, 0>>
Str_Exif == <<69, 120, 105, 102>>

\* a faulty detectFormat whose PNG test asks for 4 bytes instead of 8
detectFormatPngOnFourBytes(b) ==
    IF Len(b) >= 4 /\ At(b, 0) = 137 /\ At(b, 1) = 80 /\ At(b, 2) = 78 /\ At(b, 3) = 71
    THEN "PNG"
    ELSE IF Len(b) >= 3 /\ At(b, 0) = 255 /\ At(b, 1) = 216 /\ At(b, 2) = 255
    THEN "JPEG"
    ELSE IF Len(b) >= 12 /\ chars(b, 8, 4) = Str_WEBP
    THEN "WEBP"
    ELSE IF Len(b) >= 6 /\ At(b, 0) = 71 /\ At(b, 1) = 73 /\ At(b, 2) = 70
            /\ At(b, 3) = 56 /\ (At(b, 4) = 57 \/ At(b, 4) = 55) /\ At(b, 5) = 97
    THEN "GIF"
    ELSE "Unknown"

\* a faulty detectFormat that compares all 8 bytes of the PNG signature
detectFormatFullPngSignature(b) ==
    IF Len(b) >= 8 /\ At(b, 0) = 137 /\ At(b, 1) = 80 /\ At(b, 2) = 78 /\ At(b, 3) = 71
       /\ At(b, 4) = 13 /\ At(b, 5) = 10 /\ At(b, 6) = 26 /\ At(b, 7) = 10
    THEN "PNG"
    ELSE IF Len(b) >= 3 /\ At(b, 0) = 255 /\ At(b, 1) = 216 /\ At(b, 2) = 255
    THEN "JPEG"
    ELSE IF Len(b) >= 12 /\ chars(b, 8, 4) = Str_WEBP
    THEN "WEBP"
    ELSE IF Len(b) >= 6 /\ At(b, 0) = 71 /\ At(b, 1) = 73 /\ At(b, 2) = 70
            /\ At(b, 3) = 56 /\ (At(b, 4) = 57 \/ At(b, 4) = 55) /\ At(b, 5) = 97
    THEN "GIF"
    ELSE "Unknown"

(***************************************************************************)
(* detectFormat                                                            *)
(***************************************************************************)
\* a faulty detectFormat that tests the GIF signature before 'WEBP'
detectFormatGifBeforeWebp(b) ==
    IF Len(b) >= 8 /\ At(b, 0) = 137 /\ At(b, 1) = 80 /\ At(b, 2) = 78 /\ At(b, 3) = 71
    THEN "PNG"
    ELSE IF Len(b) >= 3 /\ At(b, 0) = 255 /\ At(b, 1) = 216 /\ At(b, 2) = 255
    THEN "JPEG"
    ELSE IF Len(b) >= 6 /\ At(b, 0) = 71 /\ At(b, 1) = 73 /\ At(b, 2) = 70
            /\ At(b, 3) = 56 /\ (At(b, 4) = 57 \/ At(b, 4) = 55) /\ At(b, 5) = 97
    THEN "GIF"
    ELSE IF Len(b) >= 12 /\ chars(b, 8, 4) = Str_WEBP
    THEN "WEBP"
    ELSE "Unknown"
detectFormat(b) ==
    IF Len(b) >= 8 /\ At(b, 0) = 137 /\ At(b, 1) = 80 /\ At(b, 2) = 78 /\ At(b, 3) = 71
    THEN "PNG"
    ELSE IF Len(b) >= 3 /\ At(b, 0) = 255 /\ At(b, 1) = 216 /\ At(b, 2) = 255
    THEN "JPEG"
    ELSE IF Len(b) >= 12 /\ chars(b, 8, 4) = Str_WEBP
    THEN "WEBP"
    ELSE IF Len(b) >= 6 /\ At(b, 0) = 71 /\ At(b, 1) = 73 /\ At(b, 2) = 70
            /\ At(b, 3) = 56 /\ (At(b, 4) = 57 \/ At(b, 4) = 55) /\ At(b, 5) = 97
    THEN "GIF"
    ELSE "Unknown"

\* a faulty parsePngPhys that skips a pHYs chunk it cannot convert and walks on
parsePngPhysIterPastFailedPhys(b, o) ==
    IF ~(o + 8 <= Len(b))
    THEN [ret |-> TRUE, res |-> Null, offset |-> o]
    ELSE IF chars(b, o + 4, 4) = Str_pHYs /\ readUint32(b, o, FALSE) >= 9
            /\ At(b, o + 16) = 1
    THEN [ret |-> TRUE,
          res |-> Some([dpiX |-> round2(readUint32(b, o + 8, FALSE) * 254, 10000),
                        dpiY |-> round2(readUint32(b, o + 12, FALSE) * 254, 10000)]),
          offset |-> o]
    ELSE [ret |-> FALSE, res |-> Null, offset |-> o + 8 + readUint32(b, o, FALSE) + 4]

(***************************************************************************)
(* parsePngPhys: one evaluation of the loop condition and, when it holds,  *)
(* one pass through the loop body, from offset o.                          *)
(*   [ret |-> TRUE,  res |-> r]       the function returns r               *)
(*   [ret |-> FALSE, offset |-> o2]   the loop goes round again from o2    *)
(***************************************************************************)
parsePngPhysIter(b, o) ==
    IF ~(o + 8 <= Len(b))
    THEN [ret |-> TRUE, res |-> Null, offset |-> o]
    ELSE LET length == readUint32(b, o, FALSE)
             type == chars(b, o + 4, 4)
             dataStart == o + 8
         IN  IF type = Str_pHYs
             THEN IF length >= 9 /\ At(b, dataStart + 8) = 1
                  THEN [ret |-> TRUE,
                        res |-> Some([dpiX |-> round2(readUint32(b, dataStart, FALSE) * 254, 10000),
                                      dpiY |-> round2(readUint32(b, dataStart + 4, FALSE) * 254, 10000)]),
                        offset |-> o]
                  ELSE [ret |-> TRUE, res |-> Null, offset |-> o]
             ELSE [ret |-> FALSE, res |-> Null, offset |-> dataStart + length + 4]


\* a faulty parseJpegJfifDpi that advances by the size field alone
parseJpegJfifDpiIterBySize(b, o) ==
    IF ~(o + 4 < Len(b))
    THEN [ret |-> TRUE, res |-> Null, offset |-> o]
    ELSE IF At(b, o) # 255
    THEN [ret |-> TRUE, res |-> Null, offset |-> o]
    ELSE LET marker == At(b, o + 1)
             size == readUint16(b, o + 2, FALSE)
             units == At(b, o + 9)
             xDensity == readUint16(b, o + 10, FALSE)
             yDensity == readUint16(b, o + 12, FALSE)
         IN  IF marker = 224 /\ chars(b, o + 4, 5) = Str_JFIF0 /\ units = 1
             THEN [ret |-> TRUE,
                   res |-> Some([dpiX |-> xDensity * 100, dpiY |-> yDensity * 100]),
                   offset |-> o]
             ELSE IF marker = 224 /\ chars(b, o + 4, 5) = Str_JFIF0 /\ units = 2
             THEN [ret |-> TRUE,
                   res |-> Some([dpiX |-> round2(xDensity * 254, 100),
                                 dpiY |-> round2(yDensity * 254, 100)]),
                   offset |-> o]
             ELSE IF marker = 218
             THEN [ret |-> TRUE, res |-> Null, offset |-> o]
             ELSE [ret |-> FALSE, res |-> Null, offset |-> o + size]

(***************************************************************************)
(* parseJpegJfifDpi: one evaluation of the loop condition and one pass     *)
(* through the loop body, from offset o (same result shape as above).      *)
(***************************************************************************)
parseJpegJfifDpiIter(b, o) ==
    IF ~(o + 4 < Len(b))
    THEN [ret |-> TRUE, res |-> Null, offset |-> o]
    ELSE IF At(b, o) # 255
    THEN [ret |-> TRUE, res |-> Null, offset |-> o]
    ELSE LET marker == At(b, o + 1)
             size == readUint16(b, o + 2, FALSE)
             units == At(b, o + 9)
             xDensity == readUint16(b, o + 10, FALSE)
             yDensity == readUint16(b, o + 12, FALSE)
         IN  IF marker = 224 /\ chars(b, o + 4, 5) = Str_JFIF0 /\ units = 1
             THEN [ret |-> TRUE,
                   res |-> Some([dpiX |-> xDensity * 100, dpiY |-> yDensity * 100]),
                   offset |-> o]
             ELSE IF marker = 224 /\ chars(b, o + 4, 5) = Str_JFIF0 /\ units = 2
             THEN [ret |-> TRUE,
                   res |-> Some([dpiX |-> round2(xDensity * 254, 100),
                                 dpiY |-> round2(yDensity * 254, 100)]),
                   offset |-> o]
             ELSE IF marker = 218
             THEN [ret |-> TRUE, res |-> Null, offset |-> o]
             ELSE [ret |-> FALSE, res |-> Null, offset |-> o + 2 + size]

(***************************************************************************)
(* readExifDpi.  A resolution is the pair <<num, den>> of `num / den`, or  *)
(* <<0, 1>> where the source takes 0 for a zero denominator.               *)
(***************************************************************************)
\* const val = den ? num / den : 0;
rationalValue(num, den) == IF den # 0 THEN <<num, den>> ELSE <<0, 1>>

\* the X/YResolution branch of the loop body, past the type and count test
resolutionEntry(b, tiffStart, tiffLength, isLE, acc, tag, addr) ==
    IF addr + 8 > tiffStart + tiffLength THEN acc
    ELSE IF tag = 282
    THEN [acc EXCEPT !.xRes = Some(rationalValue(readUint32(b, addr, isLE),
                                                 readUint32(b, addr + 4, isLE)))]
    ELSE [acc EXCEPT !.yRes = Some(rationalValue(readUint32(b, addr, isLE),
                                                 readUint32(b, addr + 4, isLE)))]

\* the body of the IFD0 loop of readExifDpi for one entry
dpiEntry(b, tiffStart, tiffLength, isLE, acc, tag, type, count, valueOffset) ==
    IF tag = 296 THEN [acc EXCEPT !.unit = valueOffset]
    ELSE IF (tag = 282 \/ tag = 283) /\ type = 5 /\ count = 1
    THEN resolutionEntry(b, tiffStart, tiffLength, isLE, acc, tag, tiffStart + valueOffset)
    ELSE acc

RECURSIVE readExifDpiLoop(_, _, _, _, _, _, _, _)
readExifDpiLoop(b, tiffStart, tiffLength, isLE, ifd0Start, numEntries, i, acc) ==
    IF ~(i < numEntries) \/ ifd0Start + 2 + i * 12 + 12 > tiffStart + tiffLength
    THEN acc
    ELSE readExifDpiLoop(b, tiffStart, tiffLength, isLE, ifd0Start, numEntries, i + 1,
             dpiEntry(b, tiffStart, tiffLength, isLE, acc,
                      readUint16(b, ifd0Start + 2 + i * 12, isLE),
                      readUint16(b, ifd0Start + 2 + i * 12 + 2, isLE),
                      readUint32(b, ifd0Start + 2 + i * 12 + 4, isLE),
                      readUint32(b, ifd0Start + 2 + i * 12 + 8, isLE)))

\* JavaScript truthiness of xRes / yRes: not null and not 0
Truthy(res) == res # Null /\ res[1][1] # 0

\* if (xRes && yRes) { if (unit === 2) ...; if (unit === 3) ...; } return null;
exifDpiResult(r) ==
    IF Truthy(r.xRes) /\ Truthy(r.yRes)
    THEN IF r.unit = 2
         THEN Some([dpiX |-> round2(r.xRes[1][1], r.xRes[1][2]),
                    dpiY |-> round2(r.yRes[1][1], r.yRes[1][2])])
         ELSE IF r.unit = 3
         THEN Some([dpiX |-> round2(r.xRes[1][1] * 254, r.xRes[1][2] * 100),
                    dpiY |-> round2(r.yRes[1][1] * 254, r.yRes[1][2] * 100)])
         ELSE Null
    ELSE Null

\* readExifDpi from the IFD0 bounds check on
exifDpiIfd0(b, tiffStart, tiffLength, isLE, ifd0Start) ==
    IF ifd0Start + 2 > tiffStart + tiffLength THEN Null
    ELSE exifDpiResult(readExifDpiLoop(b, tiffStart, tiffLength, isLE, ifd0Start,
                                       readUint16(b, ifd0Start, isLE), 0,
                                       [xRes |-> Null, yRes |-> Null, unit |-> 2]))

\* readExifDpi from the magic number on, the byte order known
exifDpiTiff(b, tiffStart, tiffLength, isLE) ==
    IF readUint16(b, tiffStart + 2, isLE) # 42 THEN Null
    ELSE exifDpiIfd0(b, tiffStart, tiffLength, isLE,
                     tiffStart + readUint32(b, tiffStart + 4, isLE))

readExifDpi(b, tiffStart, tiffLength) ==
    IF tiffLength < 8 THEN Null
    ELSE exifDpiTiff(b, tiffStart, tiffLength, chars(b, tiffStart, 2) = <<73, 73>>)

\* a faulty parseJpegExifDpi that walks on past the SOS marker
parseJpegExifDpiIterPastSos(b, o) ==
    IF ~(o + 4 < Len(b))
    THEN [ret |-> TRUE, res |-> Null, offset |-> o]
    ELSE IF At(b, o) # 255
    THEN [ret |-> TRUE, res |-> Null, offset |-> o]
    ELSE LET marker == At(b, o + 1)
             size == readUint16(b, o + 2, FALSE)
         IN  IF marker = 225 /\ size >= 8 /\ chars(b, o + 4, 4) = Str_Exif
             THEN [ret |-> TRUE, res |-> readExifDpi(b, o + 10, size - 8), offset |-> o]
             ELSE [ret |-> FALSE, res |-> Null, offset |-> o + 2 + size]

(***************************************************************************)
(* parseJpegExifDpi: one evaluation of the loop condition and one pass     *)
(* through the loop body, from offset o.                                   *)
(***************************************************************************)
parseJpegExifDpiIter(b, o) ==
    IF ~(o + 4 < Len(b))
    THEN [ret |-> TRUE, res |-> Null, offset |-> o]
    ELSE IF At(b, o) # 255
    THEN [ret |-> TRUE, res |-> Null, offset |-> o]
    ELSE LET marker == At(b, o + 1)
             size == readUint16(b, o + 2, FALSE)
         IN  IF marker = 225 /\ size >= 8 /\ chars(b, o + 4, 4) = Str_Exif
             THEN [ret |-> TRUE, res |-> readExifDpi(b, o + 10, size - 8), offset |-> o]
             ELSE IF marker = 218
             THEN [ret |-> TRUE, res |-> Null, offset |-> o]
             ELSE [ret |-> FALSE, res |-> Null, offset |-> o + 2 + size]

(***************************************************************************)
(* The EXIF extras decoder.  Strings are sequences of char codes; a        *)
(* rational is the pair <<num, den>> of signed 32-bit reads; a coordinate  *)
(* is an integer number of millionths of a degree.                         *)
(***************************************************************************)
Min(a, c) == IF a < c THEN a ELSE c

Max(a, c) == IF a > c THEN a ELSE c

Abs(a) == IF a < 0 THEN -a ELSE a

\* (v >> (8 * k)) & 0xFF of a signed 32-bit v
ByteOf(v, k) ==
    CASE k = 0 -> v % 256
      [] k = 1 -> (v \div 256) % 256
      [] k = 2 -> (v \div 65536) % 256
      [] OTHER -> (v \div 16777216) % 256

RECURSIVE inlineChars(_, _, _, _)
inlineChars(valueOffset, isLE, n, i) ==
    IF ~(i < n) THEN <<>>
    ELSE LET byte == IF isLE THEN ByteOf(valueOffset, i) ELSE ByteOf(valueOffset, 3 - i)
         IN  IF byte = 0 THEN <<>>
             ELSE <<byte>> \o inlineChars(valueOffset, isLE, n, i + 1)

RECURSIVE offsetChars(_, _, _, _)
offsetChars(b, start, length, i) ==
    IF ~(i < length) THEN <<>>
    ELSE IF At(b, start + i) = 0 THEN <<>>
    ELSE <<fromCharCode(At(b, start + i))>> \o offsetChars(b, start, length, i + 1)

\* a faulty readExifAscii that reads `count` bytes whatever is left of the region
readExifAsciiUnbounded(b, tiffStart, tiffLength, type, count, valueOffset, isLE) ==
    IF type # 2 \/ count < 1 THEN Null
    ELSE IF count <= 4
    THEN Some(inlineChars(valueOffset, isLE, Min(count, 4), 0))
    ELSE Some(offsetChars(b, tiffStart + valueOffset, count, 0))
readExifAscii(b, tiffStart, tiffLength, type, count, valueOffset, isLE) ==
    IF type # 2 \/ count < 1 THEN Null
    ELSE IF count <= 4
    THEN Some(inlineChars(valueOffset, isLE, Min(count, 4), 0))
    ELSE LET start == tiffStart + valueOffset
             length == Min(count, Max(0, (tiffStart + tiffLength) - start))
         IN  Some(offsetChars(b, start, length, 0))

readExifRationalArray(b, tiffStart, tiffLength, type, count, valueOffset, isLE) ==
    IF type # 5 \/ count < 1 THEN Null
    ELSE LET start == tiffStart + valueOffset
         IN  IF start + 8 * count > tiffStart + tiffLength THEN Null
             ELSE Some([i \in 1..count |->
                        <<readUint32(b, start + (i - 1) * 8, isLE),
                          readUint32(b, start + (i - 1) * 8 + 4, isLE)>>])

\* rationalToNumber, as a fraction <<n, d>> with d > 0
rationalToNumber(r) ==
    IF r[2] = 0 THEN <<0, 1>>
    ELSE IF r[2] < 0 THEN <<-r[1], -r[2]>> ELSE r

\* Math.round(n * 100^k / d) for d > 0, by long division two digits at a time
RECURSIVE roundScaled(_, _, _, _)
roundScaled(q, r, d, k) ==
    IF k = 0 THEN IF 2 * r >= d THEN q + 1 ELSE q
    ELSE roundScaled(q * 100 + (r * 100) \div d, (r * 100) % d, d, k - 1)

\* round6 of the fraction n / d (d > 0), in millionths
round6(n, d) == roundScaled(n \div d, n % d, d, 3)

\* dmsToDecimal, as a fraction: (|deg| + min / 60 + sec / 3600) * sign
dmsToDecimal(deg, min, sec, sign) ==
    LET n == Abs(deg[1]) * min[2] * sec[2] * 3600
             + min[1] * deg[2] * sec[2] * 60
             + sec[1] * deg[2] * min[2]
        d == 3600 * deg[2] * min[2] * sec[2]
    IN  <<IF sign < 0 THEN -n ELSE n, d>>

\* make / model / software = str, when str != null
setAscii(acc, tag, str) ==
    IF str = Null THEN acc
    ELSE IF tag = 271 THEN [acc EXCEPT !.make = str]
    ELSE IF tag = 272 THEN [acc EXCEPT !.model = str]
    ELSE [acc EXCEPT !.software = str]

\* the body of the IFD0 loop of readExifGeneral for one entry
ifd0Entry(b, tiffStart, tiffLength, isLE, acc, tag, type, count, valueOffset) ==
    IF tag = 271 \/ tag = 272 \/ tag = 305
    THEN setAscii(acc, tag,
                  readExifAscii(b, tiffStart, tiffLength, type, count, valueOffset, isLE))
    ELSE IF tag = 34853 THEN [acc EXCEPT !.gpsIfdPtr = Some(valueOffset)]
    ELSE acc

RECURSIVE readExifGeneralIfd0(_, _, _, _, _, _, _, _)
readExifGeneralIfd0(b, tiffStart, tiffLength, isLE, ifd0Start, numEntries, i, acc) ==
    IF ~(i < numEntries) \/ ifd0Start + 2 + i * 12 + 12 > tiffStart + tiffLength
    THEN acc
    ELSE readExifGeneralIfd0(b, tiffStart, tiffLength, isLE, ifd0Start, numEntries, i + 1,
             ifd0Entry(b, tiffStart, tiffLength, isLE, acc,
                       readUint16(b, ifd0Start + 2 + i * 12, isLE),
                       readUint16(b, ifd0Start + 2 + i * 12 + 2, isLE),
                       readUint32(b, ifd0Start + 2 + i * 12 + 4, isLE),
                       readUint32(b, ifd0Start + 2 + i * 12 + 8, isLE)))

\* the body of the GPS loop of readExifGeneral for one entry
gpsEntry(b, tiffStart, tiffLength, isLE, acc, tag, type, count, valueOffset) ==
    IF tag = 1
    THEN [acc EXCEPT !.latRef =
              readExifAscii(b, tiffStart, tiffLength, type, count, valueOffset, isLE)]
    ELSE IF tag = 2
    THEN [acc EXCEPT !.lat =
              readExifRationalArray(b, tiffStart, tiffLength, type, count, valueOffset, isLE)]
    ELSE IF tag = 3
    THEN [acc EXCEPT !.lonRef =
              readExifAscii(b, tiffStart, tiffLength, type, count, valueOffset, isLE)]
    ELSE IF tag = 4
    THEN [acc EXCEPT !.lon =
              readExifRationalArray(b, tiffStart, tiffLength, type, count, valueOffset, isLE)]
    ELSE acc

RECURSIVE readExifGeneralGps(_, _, _, _, _, _, _, _)
readExifGeneralGps(b, tiffStart, tiffLength, isLE, gpsStart, gpsEntries, i, acc) ==
    IF ~(i < gpsEntries) \/ gpsStart + 2 + i * 12 + 12 > tiffStart + tiffLength
    THEN acc
    ELSE readExifGeneralGps(b, tiffStart, tiffLength, isLE, gpsStart, gpsEntries, i + 1,
             gpsEntry(b, tiffStart, tiffLength, isLE, acc,
                      readUint16(b, gpsStart + 2 + i * 12, isLE),
                      readUint16(b, gpsStart + 2 + i * 12 + 2, isLE),
                      readUint32(b, gpsStart + 2 + i * 12 + 4, isLE),
                      readUint32(b, gpsStart + 2 + i * 12 + 8, isLE)))

NoGps == [latRef |-> Null, lonRef |-> Null, lat |-> Null, lon |-> Null]

\* the `if (gpsIfdPtr != null) { ... }` block up to the end of its loop
readGpsIfd(b, tiffStart, tiffLength, isLE, gpsIfdPtr) ==
    IF gpsIfdPtr = Null THEN NoGps
    ELSE IF ~(tiffStart + gpsIfdPtr[1] + 2 <= tiffStart + tiffLength) THEN NoGps
    ELSE readExifGeneralGps(b, tiffStart, tiffLength, isLE, tiffStart + gpsIfdPtr[1],
                            readUint16(b, tiffStart + gpsIfdPtr[1], isLE), 0, NoGps)

\* dmsToDecimal of the first three rationals, then round6, in millionths
roundFraction(f) == round6(f[1], f[2])

gpsDecimal(arr, sign) ==
    roundFraction(dmsToDecimal(rationalToNumber(arr[1]), rationalToNumber(arr[2]),
                               rationalToNumber(arr[3]), sign))

\* if (lat && lat.length >= 3 && lon && lon.length >= 3)
bothCoordinates(g) ==
    g.lat # Null /\ Len(g.lat[1]) >= 3 /\ g.lon # Null /\ Len(g.lon[1]) >= 3

\* a faulty result that decodes each coordinate on its own
exifGeneralOutEither(d0, g) ==
    [make |-> d0.make, model |-> d0.model, software |-> d0.software,
     gpsLatitude |-> IF g.lat # Null /\ Len(g.lat[1]) >= 3
                     THEN Some(gpsDecimal(g.lat[1], IF g.latRef = Some(<<83>>) THEN -1 ELSE 1))
                     ELSE Null,
     gpsLongitude |-> IF g.lon # Null /\ Len(g.lon[1]) >= 3
                      THEN Some(gpsDecimal(g.lon[1], IF g.lonRef = Some(<<87>>) THEN -1 ELSE 1))
                      ELSE Null]
\* the object readExifGeneral returns, from the IFD0 and GPS results
exifGeneralOut(d0, g) ==
    [make |-> d0.make, model |-> d0.model, software |-> d0.software,
     gpsLatitude |-> IF bothCoordinates(g)
                     THEN Some(gpsDecimal(g.lat[1], IF g.latRef = Some(<<83>>) THEN -1 ELSE 1))
                     ELSE Null,
     gpsLongitude |-> IF bothCoordinates(g)
                      THEN Some(gpsDecimal(g.lon[1], IF g.lonRef = Some(<<87>>) THEN -1 ELSE 1))
                      ELSE Null]

NoIfd0 == [make |-> Null, model |-> Null, software |-> Null, gpsIfdPtr |-> Null]

\* readExifGeneral once IFD0 has been walked
exifGeneralGps(b, tiffStart, tiffLength, isLE, d0) ==
    exifGeneralOut(d0, readGpsIfd(b, tiffStart, tiffLength, isLE, d0.gpsIfdPtr))

\* readExifGeneral from the IFD0 bounds check on
exifGeneralIfd0(b, tiffStart, tiffLength, isLE, ifd0Start) ==
    IF ifd0Start + 2 > tiffStart + tiffLength THEN Null
    ELSE Some(exifGeneralGps(b, tiffStart, tiffLength, isLE,
                  readExifGeneralIfd0(b, tiffStart, tiffLength, isLE, ifd0Start,
                                      readUint16(b, ifd0Start, isLE), 0, NoIfd0)))

\* readExifGeneral from the magic number on, the byte order known
exifGeneralTiff(b, tiffStart, tiffLength, isLE) ==
    IF readUint16(b, tiffStart + 2, isLE) # 42 THEN Null
    ELSE exifGeneralIfd0(b, tiffStart, tiffLength, isLE,
                         tiffStart + readUint32(b, tiffStart + 4, isLE))

readExifGeneral(b, tiffStart, tiffLength) ==
    IF tiffLength < 8 THEN Null
    ELSE exifGeneralTiff(b, tiffStart, tiffLength, chars(b, tiffStart, 2) = <<73, 73>>)

\* the record's optional EXIF fields, none set
NoExtras ==
    [exifPresent |-> Null, make |-> Null, model |-> Null, software |-> Null,
     gpsLatitude |-> Null, gpsLongitude |-> Null, gpsPresent |-> Null]

\* const obj = readExifGeneral(...) || {}; obj.exifPresent = true;
\* if (obj.gpsLatitude != null && obj.gpsLongitude != null) obj.gpsPresent = true;
exifExtrasObject(g) ==
    IF g = Null THEN [NoExtras EXCEPT !.exifPresent = Some(TRUE)]
    ELSE [exifPresent |-> Some(TRUE), make |-> g[1].make, model |-> g[1].model,
          software |-> g[1].software, gpsLatitude |-> g[1].gpsLatitude,
          gpsLongitude |-> g[1].gpsLongitude,
          gpsPresent |-> IF g[1].gpsLatitude # Null /\ g[1].gpsLongitude # Null
                         THEN Some(TRUE) ELSE Null]

\* the body of the loop of parseJpegExifExtras once bytes[offset] is 0xFF
exifExtrasSegment(b, o, marker, size) ==
    IF marker = 225 /\ size >= 8 /\ chars(b, o + 4, 4) = Str_Exif
    THEN [ret |-> TRUE, res |-> Some(exifExtrasObject(readExifGeneral(b, o + 10, size - 8))),
          offset |-> o]
    ELSE IF marker = 218
    THEN [ret |-> TRUE, res |-> Some([NoExtras EXCEPT !.exifPresent = Some(FALSE)]),
          offset |-> o]
    ELSE [ret |-> FALSE, res |-> Null, offset |-> o + 2 + size]

(***************************************************************************)
(* parseJpegExifExtras: one evaluation of the loop condition and one pass  *)
(* through the loop body, from offset o.  `res` is Null where the source   *)
(* returns null, else the object returned.                                 *)
(***************************************************************************)
parseJpegExifExtrasIter(b, o) ==
    IF ~(o + 4 < Len(b))
    THEN [ret |-> TRUE, res |-> Some([NoExtras EXCEPT !.exifPresent = Some(FALSE)]), offset |-> o]
    ELSE IF At(b, o) # 255
    THEN [ret |-> TRUE, res |-> Null, offset |-> o]
    ELSE exifExtrasSegment(b, o, At(b, o + 1), readUint16(b, o + 2, FALSE))

(***************************************************************************)
(* The files the model reads.  A file is described by its layout (the      *)
(* variable `input`) and serialised to `bytes` the way the formats lay     *)
(* their fields out; the decoders above see only `bytes`.                  *)
(***************************************************************************)
RECURSIVE Flatten(_)
Flatten(ss) == IF ss = <<>> THEN <<>> ELSE Head(ss) \o Flatten(Tail(ss))

SeqsUpTo(S, n) == UNION {[1..k -> S] : k \in 0..n}

\* v as 2 and 4 bytes in the given byte order (v may be a negative int32)
U16(le, v) == IF le THEN <<v % 256, (v \div 256) % 256>> ELSE <<(v \div 256) % 256, v % 256>>

U32(le, v) ==
    IF le THEN <<ByteOf(v, 0), ByteOf(v, 1), ByteOf(v, 2), ByteOf(v, 3)>>
    ELSE <<ByteOf(v, 3), ByteOf(v, 2), ByteOf(v, 1), ByteOf(v, 0)>>

DropLast(b, k) == SubSeq(b, 1, Max(0, Len(b) - k))

\* ---- PNG: 8-byte signature, then chunks length(4) type(4) data crc(4) ----
PngSignature == <<137, 80, 78, 71, 13, 10, 26, 10>>

Str_IDAT == <<73, 68, 65, 84>>

PngChunk(declared, type, data) == [declared |-> declared, type |-> type, data |-> data]

PhysData(px, py, unit) == U32(FALSE, px) \o U32(FALSE, py) \o <<unit>>

PngChunkBytes(c) == U32(FALSE, c.declared) \o c.type \o c.data \o <<0, 0, 0, 0>>

PngChunkMenu ==
    { PngChunk(2, Str_IDAT, <<7, 7>>),                       \* a well-formed chunk
      PngChunk(0, Str_IDAT, <<>>),                           \* an empty chunk
      PngChunk(2130706432, Str_IDAT, <<7, 7>>),              \* length far past the end
      PngChunk(-12, Str_IDAT, <<7, 7>>),                     \* length 0xFFFFFFF4
      PngChunk(-24, Str_IDAT, <<7, 7>>),                     \* length 0xFFFFFFE8
      PngChunk(9, Str_pHYs, PhysData(3937, 3937, 1)),
      PngChunk(9, Str_pHYs, PhysData(2835, 11811, 1)),
      PngChunk(9, Str_pHYs, PhysData(0, 0, 1)),
      PngChunk(9, Str_pHYs, PhysData(-12, 3937, 1)),         \* 0xFFFFFFF4 px per meter
      PngChunk(9, Str_pHYs, PhysData(3937, 3937, 0)),        \* unit unspecified
      PngChunk(8, Str_pHYs, PhysData(3937, 3937, 1)) }       \* declared length below 9

PngBytes(parts) == PngSignature \o Flatten([i \in 1..Len(parts) |-> PngChunkBytes(parts[i])])

\* ---- TIFF region of an Exif APP1 segment ----
OrderII == <<73, 73>>
OrderMM == <<77, 77>>

Entry(tag, type, count, inline, data) ==
    [tag |-> tag, type |-> type, count |-> count, inline |-> inline, data |-> data]

Rational(le, tag, num, den) == Entry(tag, 5, 1, <<>>, U32(le, num) \o U32(le, den))

Rationals3(le, tag, r) ==
    Entry(tag, 5, 3, <<>>, U32(le, r[1][1]) \o U32(le, r[1][2]) \o U32(le, r[2][1])
                           \o U32(le, r[2][2]) \o U32(le, r[3][1]) \o U32(le, r[3][2]))

\* a SHORT sits left-justified in the 4-byte value field
Short(le, tag, v) == Entry(tag, 3, 1, U16(le, v) \o <<0, 0>>, <<>>)

Long(le, tag, v) == Entry(tag, 4, 1, U32(le, v), <<>>)

Ascii(tag, str) ==
    IF Len(str) + 1 <= 4
    THEN Entry(tag, 2, Len(str) + 1, SubSeq(str \o <<0, 0, 0, 0>>, 1, 4), <<>>)
    ELSE Entry(tag, 2, Len(str) + 1, <<>>, str \o <<0>>)

RECURSIVE DataLen(_, _)
DataLen(entries, n) == IF n = 0 THEN 0 ELSE DataLen(entries, n - 1) + Len(entries[n].data)

IfdSize(entries) == 2 + 12 * Len(entries) + 4 + DataLen(entries, Len(entries))

IfdBytes(le, entries, ifdStart) ==
    LET n == Len(entries)
        dataBase == ifdStart + 2 + 12 * n + 4
        field(i) == IF entries[i].inline # <<>> THEN entries[i].inline
                    ELSE U32(le, dataBase + DataLen(entries, i - 1))
    IN  U16(le, n)
        \o Flatten([i \in 1..n |-> U16(le, entries[i].tag) \o U16(le, entries[i].type)
                                   \o U32(le, entries[i].count) \o field(i)])
        \o <<0, 0, 0, 0>>
        \o Flatten([i \in 1..n |-> entries[i].data])

Tiff(order, magic, ifd0, gps) == [order |-> order, magic |-> magic, ifd0 |-> ifd0, gps |-> gps]

TiffBytes(t) ==
    LET le == t.order = OrderII
        gpsStart == 8 + IfdSize(t.ifd0) + 12
        ifd0 == IF t.gps = <<>> THEN t.ifd0 ELSE Append(t.ifd0, Long(le, 34853, gpsStart))
    IN  t.order \o U16(le, t.magic) \o U32(le, 8) \o IfdBytes(le, ifd0, 8)
        \o (IF t.gps = <<>> THEN <<>> ELSE IfdBytes(le, t.gps, gpsStart))

\* ---- JPEG: SOI, then segments 0xFF marker size(2) payload ----
JpegSoi == <<255, 216>>

Segment(lead, marker, size, payload, jfif, tiff) ==
    [lead |-> lead, marker |-> marker, size |-> size, payload |-> payload,
     jfif |-> jfif, tiff |-> tiff]

\* APP0: 'JFIF\0', density units, X density, Y density (the layout the source reads)
JfifSeg(units, x, y) ==
    Segment(255, 224, 16, Str_JFIF0 \o <<units>> \o U16(FALSE, x) \o U16(FALSE, y)
                          \o <<0, 0, 0, 0>>,
            Some([units |-> units, x |-> x, y |-> y]), Null)

\* APP1: 'Exif\0\0', then the TIFF region
ExifSeg(t) ==
    Segment(255, 225, 8 + Len(TiffBytes(t)), Str_Exif \o <<0, 0>> \o TiffBytes(t),
            Null, Some(t))

PlainSeg(lead, marker, size, payload) == Segment(lead, marker, size, payload, Null, Null)

SegmentBytes(g) == <<g.lead, g.marker>> \o U16(FALSE, g.size) \o g.payload

ResolutionIfd(le, xn, xd, yn, yd) == <<Rational(le, 282, xn, xd), Rational(le, 283, yn, yd)>>

GpsStockholm(le) ==
    <<Ascii(1, <<78>>), Rationals3(le, 2, <<<<59, 1>>, <<19, 1>>, <<45480, 1000>>>>),
      Ascii(3, <<69>>), Rationals3(le, 4, <<<<18, 1>>, <<4, 1>>, <<6960, 1000>>>>)>>

GpsRio(le) ==
    <<Ascii(1, <<83>>), Rationals3(le, 2, <<<<22, 1>>, <<54, 1>>, <<24480, 1000>>>>),
      Ascii(3, <<87>>), Rationals3(le, 4, <<<<43, 1>>, <<10, 1>>, <<22440, 1000>>>>)>>

Str_Acme == <<65, 99, 109, 101>>
Str_X1 == <<88, 49>>
Str_GIMP == <<71, 73, 77, 80>>

TiffMenu ==
    { Tiff(OrderII, 42, ResolutionIfd(TRUE, 300, 1, 300, 1) \o <<Short(TRUE, 296, 2)>>, <<>>),
      Tiff(OrderMM, 42, ResolutionIfd(FALSE, 300, 1, 300, 1) \o <<Short(FALSE, 296, 2)>>, <<>>),
      Tiff(OrderII, 42, <<Short(TRUE, 296, 3)>> \o ResolutionIfd(TRUE, 118, 1, 120, 1), <<>>),
      Tiff(OrderMM, 42, ResolutionIfd(FALSE, 72, 1, 96, 1), <<>>),
      Tiff(OrderMM, 42, ResolutionIfd(FALSE, 300, 1, 300, 1) \o <<Long(FALSE, 296, 2)>>, <<>>),
      Tiff(OrderII, 42, ResolutionIfd(TRUE, 0, 1, 300, 1) \o <<Short(TRUE, 296, 2)>>, <<>>),
      Tiff(OrderII, 42, ResolutionIfd(TRUE, 300, 0, 300, 1), <<>>),
      Tiff(OrderII, 42, ResolutionIfd(TRUE, -12, 1, 300, 1) \o <<Short(TRUE, 296, 2)>>, <<>>),
      Tiff(<<88, 88>>, 42, ResolutionIfd(FALSE, 72, 1, 72, 1), <<>>),
      Tiff(OrderII, 43, ResolutionIfd(TRUE, 72, 1, 72, 1), <<>>),
      Tiff(OrderII, 42, <<Ascii(271, Str_Acme), Ascii(272, Str_X1)>>, GpsStockholm(TRUE)),
      Tiff(OrderMM, 42, <<Ascii(305, Str_GIMP)>> \o ResolutionIfd(FALSE, 72, 1, 72, 1),
           GpsRio(FALSE)) }

JpegSegmentMenu ==
    { JfifSeg(1, 72, 72), JfifSeg(2, 28, 118), JfifSeg(0, 1, 1), JfifSeg(1, 0, 0),
      JfifSeg(3, 72, 72),
      PlainSeg(255, 224, 8, <<74, 70, 88, 88, 0, 16>>),      \* APP0 'JFXX\0'
      PlainSeg(255, 219, 4, <<1, 2>>),                       \* DQT
      PlainSeg(255, 219, 0, <<>>),                           \* size field 0
      PlainSeg(255, 219, 65535, <<1, 2>>),                   \* size far past the end
      PlainSeg(255, 218, 4, <<1, 2>>),                       \* SOS
      PlainSeg(0, 0, 0, <<>>) }                              \* no 0xFF where a marker is due
    \cup { ExifSeg(t) : t \in TiffMenu }

JpegBytes(parts) == JpegSoi \o Flatten([i \in 1..Len(parts) |-> SegmentBytes(parts[i])])

\* ---- other files, given byte by byte; every prefix of each is read too ----
RawSeeds ==
    { PngSignature \o <<0, 0, 0, 0>>,
      <<137, 80, 78, 71, 1, 2, 3, 4, 5>>,
      PngSignature \o Str_WEBP,
      <<255, 216, 255, 224, 0, 16, 74, 70, 73, 70, 0, 1, 0, 72>>,
      <<255, 216, 255, 225, 0, 9, 69, 120, 105, 102, 0, 0>>,
      <<255, 216, 255, 219, 0, 0, 0, 0, 87, 69, 66, 80>>,
      <<71, 73, 70, 56, 57, 97, 1, 0, 1, 0>>,
      <<71, 73, 70, 56, 55, 97, 1, 0, 87, 69, 66, 80>>,
      <<82, 73, 70, 70, 4, 0, 0, 0, 87, 69, 66, 80, 86, 80>>,
      <<66, 77, 0, 0, 0, 0, 0, 0, 0, 0>> }

\* bytes dropped from the end of a laid-out file
Cuts == {0, 9}

FileBytes(in) ==
    CASE in.kind = "png" -> DropLast(PngBytes(in.parts), in.cut)
      [] in.kind = "jpeg" -> DropLast(JpegBytes(in.parts), in.cut)
      [] OTHER -> DropLast(in.parts, in.cut)

(***************************************************************************)
(* detectDpi: what follows each parser's return.                           *)
(***************************************************************************)
NullDpi == [dpiX |-> Null, dpiY |-> Null, dpiSource |-> Null]

WithSource(res, source) ==
    [dpiX |-> Some(res[1].dpiX), dpiY |-> Some(res[1].dpiY), dpiSource |-> Some(source)]

\* const res = parsePngPhys(bytes); if (res) return { ...res, dpiSource: 'PNG pHYs' };
afterPngPhys(res) ==
    IF res # Null THEN [next |-> "return", dpi |-> WithSource(res, "PNG pHYs")]
    ELSE [next |-> "return", dpi |-> NullDpi]

\* a faulty detectDpi that drops the JFIF result and always goes on to EXIF
afterJpegJfifDpiExifFirst(res) == [next |-> "parseJpegExifDpi", dpi |-> NullDpi]

\* const res = parseJpegJfifDpi(bytes); if (res) return { ...res, dpiSource: 'JPEG JFIF' };
afterJpegJfifDpi(res) ==
    IF res # Null THEN [next |-> "return", dpi |-> WithSource(res, "JPEG JFIF")]
    ELSE [next |-> "parseJpegExifDpi", dpi |-> NullDpi]

\* a faulty step that names the EXIF source whether or not the decoder answered
afterJpegExifDpiUnguarded(res) ==
    IF res # Null THEN [next |-> "return", dpi |-> WithSource(res, "JPEG EXIF")]
    ELSE [next |-> "return", dpi |-> [NullDpi EXCEPT !.dpiSource = Some("JPEG EXIF")]]
\* const exif = parseJpegExifDpi(bytes); if (exif) return { ...exif, dpiSource: 'JPEG EXIF' };
afterJpegExifDpi(res) ==
    IF res # Null THEN [next |-> "return", dpi |-> WithSource(res, "JPEG EXIF")]
    ELSE [next |-> "return", dpi |-> NullDpi]

\* the parser detectDpi calls first for a format ("return" when it calls none)
firstDpiParser(f) ==
    IF f = "PNG" THEN "parsePngPhys"
    ELSE IF f = "JPEG" THEN "parseJpegJfifDpi"
    ELSE "return"

(***************************************************************************)
(* extractMetadata: what the external parser may answer, and what the      *)
(* assembler makes of it.                                                  *)
(***************************************************************************)
ExifObject(make, model, software, latitude, longitude) ==
    [Make |-> make, Model |-> model, Software |-> software,
     latitude |-> latitude, longitude |-> longitude]

\* exifr.parse: throws, resolves to nothing, or resolves to an object
ExifrOutcomes ==
    { [threw |-> TRUE, exif |-> Null],
      [threw |-> FALSE, exif |-> Null],
      [threw |-> FALSE, exif |-> Some(ExifObject(Null, Null, Null, Null, Null))],
      [threw |-> FALSE, exif |-> Some(ExifObject(Some(Str_Acme), Some(Str_X1), Null,
                                                Some(59329300), Some(18068600)))],
      [threw |-> FALSE, exif |-> Some(ExifObject(Some(<<>>), Null, Some(Str_GIMP),
                                                Some(-22906800), Null))] }

\* if (exif.Make) ...: a string is truthy unless empty
TruthyString(v) == v # Null /\ v[1] # <<>>

\* the `if (exif) { ... }` branch of extractMetadata
extrasFromExifr(exif) ==
    [exifPresent |-> Some(TRUE),
     make |-> IF TruthyString(exif.Make) THEN exif.Make ELSE Null,
     model |-> IF TruthyString(exif.Model) THEN exif.Model ELSE Null,
     software |-> IF TruthyString(exif.Software) THEN exif.Software ELSE Null,
     gpsLatitude |-> exif.latitude,
     gpsLongitude |-> exif.longitude,
     gpsPresent |-> IF exif.latitude # Null /\ exif.longitude # Null THEN Some(TRUE) ELSE Null]

\* a faulty extractMetadata whose catch block has no JPEG fallback
afterExifrNoFallback(r, f) ==
    IF ~r.threw /\ r.exif # Null THEN "object"
    ELSE IF ~r.threw /\ f = "JPEG" THEN "walk"
    ELSE "none"

\* what extractMetadata does with exifr's answer r for a file of format f:
\* "object" takes the fields, "walk" runs parseJpegExifExtras, "none" leaves extras = {}
afterExifr(r, f) ==
    IF ~r.threw /\ r.exif # Null THEN "object"
    ELSE IF f = "JPEG" THEN "walk"
    ELSE "none"

\* extras = parseJpegExifExtras(bytes) || {}
extrasFromWalk(res) == IF res # Null THEN res[1] ELSE NoExtras

(***************************************************************************)
(* The state machine of one extractMetadata(file) call.                    *)
(***************************************************************************)
\* injectExif is not running: no arguments, no directories
EmptyDir == [t \in {} |-> <<>>]

NoFields ==
    [make |-> Null, model |-> Null, software |-> Null,
     lat |-> [type |-> "undefined", nan |-> FALSE, v |-> 0],
     lon |-> [type |-> "undefined", nan |-> FALSE, v |-> 0]]

\* let exifObj = { '0th': {}, 'GPS': {} };
NoExifObj == [zeroth |-> EmptyDir, gps |-> EmptyDir]

\* ImageInspector as mounted: the useState initial values, nothing in flight
IdleUi ==
    [file |-> Null, previewUrl |-> Null, metadata |-> Null, loading |-> FALSE,
     error |-> Null, exifMake |-> <<>>, exifModel |-> <<>>, exifSoftware |-> <<>>,
     exifLat |-> <<>>, exifLon |-> <<>>,
     pending |-> {}, selections |-> 0, settled |-> <<>>]

\* no export request is being handled
IdlePost ==
    [pc |-> "idle", form |-> Null, originalExif |-> Null, output |-> Null,
     inject |-> "not called", threwAt |-> Null, response |-> Null]

DpiWalks == {"parsePngPhys", "parseJpegJfifDpi", "parseJpegExifDpi"}

Init ==
    /\ \/ \E p \in SeqsUpTo(PngChunkMenu, MaxChunks), c \in Cuts :
              input = [kind |-> "png", parts |-> p, cut |-> c]
       \/ \E p \in SeqsUpTo(JpegSegmentMenu, MaxSegs), c \in Cuts :
              input = [kind |-> "jpeg", parts |-> p, cut |-> c]
       \/ \E r \in RawSeeds : \E n \in 0..Len(r) :
              input = [kind |-> "raw", parts |-> r, cut |-> n]
    /\ bytes = FileBytes(input)
    /\ pc = "detectFormat"
    /\ format = Null
    /\ offset = 0
    /\ trail = <<>>
    /\ calls = <<>>
    /\ dpi = NullDpi
    /\ extras = NoExtras
    /\ probe = [dpi |-> "pending", exifr |-> "pending", walk |-> "pending",
                rejectedBy |-> "nothing"]
    /\ jpegBuffer = Null
    /\ fields = NoFields
    /\ existingExif = Null
    /\ exifObj = NoExifObj
    /\ result = Null
    /\ ipc = "idle"
    /\ applied = 0
    /\ ui = IdleUi
    /\ post = IdlePost

\* const format = detectFormat(bytes);
DetectFormat ==
    /\ pc = "detectFormat"
    /\ format' = Some(detectFormat(bytes))
    /\ pc' = "detectDpi"
    /\ UNCHANGED <<input, bytes, offset, trail, calls, dpi, extras, probe>>
    /\ UNCHANGED <<writeVars, hostVars>>

\* detectDpi is entered and dispatches on the format
DetectDpi ==
    /\ pc = "detectDpi"
    /\ LET first == firstDpiParser(format[1])
       IN  IF first = "return"
           THEN /\ pc' = "exifr.parse"
                /\ dpi' = NullDpi
                /\ probe' = [probe EXCEPT !.dpi = "returned"]
                /\ UNCHANGED <<offset, trail, calls>>
           ELSE /\ pc' = first
                /\ offset' = IF first = "parsePngPhys" THEN 8 ELSE 2
                /\ trail' = <<>>
                /\ calls' = Append(calls, first)
                /\ UNCHANGED <<dpi, probe>>
    /\ UNCHANGED <<input, bytes, format, extras>>
    /\ UNCHANGED <<writeVars, hostVars>>

\* a parser of detectDpi ran one loop iteration and went round again, returned
\* into detectDpi, which returned or called the next parser
DpiStep(walk, r, after) ==
    /\ trail' = IF r.ret THEN <<>> ELSE Append(trail, offset)
    /\ IF ~r.ret
       THEN /\ offset' = r.offset
            /\ UNCHANGED <<pc, calls, dpi, probe>>
       ELSE IF after.next = "return"
       THEN /\ pc' = "exifr.parse"
            /\ dpi' = after.dpi
            /\ probe' = [probe EXCEPT !.dpi = "returned"]
            /\ offset' = 0
            /\ UNCHANGED calls
       ELSE /\ pc' = after.next
            /\ offset' = 2
            /\ calls' = Append(calls, after.next)
            /\ UNCHANGED <<dpi, probe>>
    /\ UNCHANGED <<input, bytes, format, extras>>
    /\ UNCHANGED <<writeVars, hostVars>>

ParsePngPhys ==
    /\ pc = "parsePngPhys"
    /\ Len(trail) < MaxSteps
    /\ \E r \in {parsePngPhysIter(bytes, offset)} :
           DpiStep("parsePngPhys", r, afterPngPhys(r.res))

ParseJpegJfifDpi ==
    /\ pc = "parseJpegJfifDpi"
    /\ Len(trail) < MaxSteps
    /\ \E r \in {parseJpegJfifDpiIter(bytes, offset)} :
           DpiStep("parseJpegJfifDpi", r, afterJpegJfifDpi(r.res))

ParseJpegExifDpi ==
    /\ pc = "parseJpegExifDpi"
    /\ Len(trail) < MaxSteps
    /\ \E r \in {parseJpegExifDpiIter(bytes, offset)} :
           DpiStep("parseJpegExifDpi", r, afterJpegExifDpi(r.res))

\* an exception inside detectDpi's try block: the catch logs it and
\* detectDpi returns { dpiX: null, dpiY: null, dpiSource: null }
DpiCatch ==
    /\ pc \in DpiWalks
    /\ pc' = "exifr.parse"
    /\ dpi' = NullDpi
    /\ probe' = [probe EXCEPT !.dpi = "threw"]
    /\ offset' = 0
    /\ trail' = <<>>
    /\ UNCHANGED <<input, bytes, format, calls, extras>>
    /\ UNCHANGED <<writeVars, hostVars>>

\* await exifr.parse(arrayBuffer, ...), and the branch taken on its answer
ExifrParse ==
    /\ pc = "exifr.parse"
    /\ \E r \in ExifrOutcomes :
          LET branch == afterExifr(r, format[1])
          IN  /\ probe' = [probe EXCEPT !.exifr = IF r.threw THEN "threw"
                                                  ELSE IF r.exif = Null THEN "nothing"
                                                  ELSE "object"]
              /\ calls' = Append(calls, "exifr.parse")
              /\ IF branch = "object"
                 THEN /\ extras' = extrasFromExifr(r.exif[1])
                      /\ pc' = "getImagePixelDimensions"
                      /\ UNCHANGED <<offset, trail>>
                 ELSE IF branch = "walk"
                 THEN /\ pc' = "parseJpegExifExtras"
                      /\ offset' = 2
                      /\ trail' = <<>>
                      /\ UNCHANGED extras
                 ELSE /\ extras' = NoExtras
                      /\ pc' = "getImagePixelDimensions"
                      /\ UNCHANGED <<offset, trail>>
    /\ UNCHANGED <<input, bytes, format, dpi>>
    /\ UNCHANGED <<writeVars, hostVars>>

ParseJpegExifExtras ==
    /\ pc = "parseJpegExifExtras"
    /\ Len(trail) < MaxSteps
    /\ \E r \in {parseJpegExifExtrasIter(bytes, offset)} :
           /\ trail' = IF r.ret THEN <<>> ELSE Append(trail, offset)
           /\ IF r.ret
              THEN /\ extras' = extrasFromWalk(r.res)
                   /\ probe' = [probe EXCEPT !.walk = IF r.res = Null THEN "aborted"
                                                      ELSE "completed"]
                   /\ pc' = "getImagePixelDimensions"
                   /\ offset' = 0
              ELSE /\ offset' = r.offset
                   /\ UNCHANGED <<pc, extras, probe>>
    /\ UNCHANGED <<input, bytes, format, calls, dpi>>
    /\ UNCHANGED <<writeVars, hostVars>>

\* await getImagePixelDimensions(file): the image loads, or img.onerror rejects
GetImagePixelDimensions ==
    /\ pc = "getImagePixelDimensions"
    /\ \E loaded \in BOOLEAN :
          IF loaded
          THEN pc' = "resolved" /\ UNCHANGED probe
          ELSE /\ pc' = "rejected"
               /\ probe' = [probe EXCEPT !.rejectedBy = "getImagePixelDimensions"]
    /\ UNCHANGED <<input, bytes, format, offset, trail, calls, dpi, extras>>
    /\ UNCHANGED <<writeVars, hostVars>>

Next ==
    \/ DetectFormat
    \/ DetectDpi
    \/ ParsePngPhys
    \/ ParseJpegJfifDpi
    \/ ParseJpegExifDpi
    \/ DpiCatch
    \/ ExifrParse
    \/ ParseJpegExifExtras
    \/ GetImagePixelDimensions

Spec == Init /\ [][Next]_vars

(***************************************************************************)
(* injectExif(jpegBuffer, { make, model, software, lat, lon }).            *)
(* A directory is a function from tag numbers to values; a string is its   *)
(* char codes, a number n is <<n>>, a rational is <<num, den>>.  A         *)
(* coordinate argument is [type, nan, v]: its typeof, whether it is NaN,   *)
(* and, for a number, its value in units of 0.0000001 degree.              *)
(***************************************************************************)
ImageIFD_Make == 271
ImageIFD_Model == 272
ImageIFD_Software == 305
GPSIFD_GPSLatitudeRef == 1
GPSIFD_GPSLatitude == 2
GPSIFD_GPSLongitudeRef == 3
GPSIFD_GPSLongitude == 4

\* dir[tag] = v
Put(dir, tag, v) == (tag :> v) @@ dir

\* a faulty triple whose seconds are cut after the third decimal, not rounded
dmsTripleTruncating(deg) ==
    <<<<Abs(deg) \div 10000000, 1>>,
      <<((Abs(deg) % 10000000) * 60) \div 10000000, 1>>,
      <<((((Abs(deg) % 10000000) * 60) % 10000000) * 60) \div 10000, 1000>>>>
\* d, m and s of degToDmsRational / degToDmsRationalLon, deg in units of
\* 0.0000001 degree; the seconds come out in thousandths
dmsTriple(deg) ==
    <<<<Abs(deg) \div 10000000, 1>>,
      <<((Abs(deg) % 10000000) * 60) \div 10000000, 1>>,
      <<MathRound((((Abs(deg) % 10000000) * 60) % 10000000) * 60, 10000), 1000>>>>

degToDmsRational(deg) == [ref |-> IF deg < 0 THEN <<83>> ELSE <<78>>, dms |-> dmsTriple(deg)]

\* a faulty degToDmsRationalLon that names the hemisphere 'S' / 'N'
degToDmsRationalLonRefNS(deg) ==
    [ref |-> IF deg < 0 THEN <<83>> ELSE <<78>>, dms |-> dmsTriple(deg)]
degToDmsRationalLon(deg) == [ref |-> IF deg < 0 THEN <<87>> ELSE <<69>>, dms |-> dmsTriple(deg)]

\* a faulty merge that always starts from empty directories
mergeExistingFresh(e) == [zeroth |-> EmptyDir, gps |-> EmptyDir]

\* the try block around piexif.load: the directories the merge starts from
mergeExisting(e) ==
    IF e.threw THEN NoExifObj
    ELSE [zeroth |-> IF e.zeroth # Null THEN e.zeroth[1] ELSE EmptyDir,
          gps |-> IF e.gps # Null THEN e.gps[1] ELSE EmptyDir]

\* a faulty update that writes every string that is not undefined
updateStringUnlessUndefined(dir, tag, v) == IF v # Null THEN Put(dir, tag, v[1]) ELSE dir

\* if (make) exifObj['0th'][piexif.ImageIFD.Make] = make;
updateString(dir, tag, v) == IF TruthyString(v) THEN Put(dir, tag, v[1]) ELSE dir

\* if (typeof lat === 'number' && !Number.isNaN(lat)) { ref and triple are set }
updateCoordinate(dir, refTag, tag, c, dms) ==
    IF c.type = "number" /\ ~c.nan
    THEN Put(Put(dir, refTag, dms.ref), tag, dms.dms)
    ELSE dir

\* lines 161-173: the fields written over the merged directories
updateFields(obj, f) ==
    [zeroth |-> updateString(updateString(updateString(obj.zeroth, ImageIFD_Make, f.make),
                                          ImageIFD_Model, f.model),
                             ImageIFD_Software, f.software),
     gps |-> updateCoordinate(updateCoordinate(obj.gps, GPSIFD_GPSLatitudeRef,
                                               GPSIFD_GPSLatitude, f.lat,
                                               degToDmsRational(f.lat.v)),
                              GPSIFD_GPSLongitudeRef, GPSIFD_GPSLongitude, f.lon,
                              degToDmsRationalLon(f.lon.v))]

\* ---- the arguments injectExif is called with ----
Str_Old == <<79, 108, 100>>

CoordinateInputs ==
    { [type |-> "undefined", nan |-> FALSE, v |-> 0],
      [type |-> "string", nan |-> FALSE, v |-> 0],
      [type |-> "number", nan |-> TRUE, v |-> 0],
      [type |-> "number", nan |-> FALSE, v |-> 0],
      [type |-> "number", nan |-> FALSE, v |-> 593293000],
      [type |-> "number", nan |-> FALSE, v |-> -229068000] }

FieldInputs ==
    [make : {Null, Some(<<>>), Some(Str_Acme)},
     model : {Null, Some(Str_X1)},
     software : {Null, Some(<<>>), Some(Str_GIMP)},
     lat : CoordinateInputs,
     lon : CoordinateInputs]

\* ---- what piexif.load may answer for the buffer injectExif is given ----
ZerothInputs ==
    { EmptyDir,
      ImageIFD_Make :> Str_Old,
      (ImageIFD_Make :> Str_Old) @@ (ImageIFD_Model :> Str_Old)
          @@ (ImageIFD_Software :> Str_Old) @@ (274 :> <<6>>),
      (274 :> <<1>>) @@ (282 :> <<72, 1>>) @@ (283 :> <<72, 1>>) @@ (296 :> <<2>>) }

GpsInputs ==
    { EmptyDir,
      (GPSIFD_GPSLatitudeRef :> <<83>>) @@ (GPSIFD_GPSLatitude :> dmsTriple(229068000))
          @@ (GPSIFD_GPSLongitudeRef :> <<87>>)
          @@ (GPSIFD_GPSLongitude :> dmsTriple(431729000)) @@ (6 :> <<12, 1>>),
      (GPSIFD_GPSLatitudeRef :> <<78>>) @@ (GPSIFD_GPSLatitude :> dmsTriple(593293000)),
      (0 :> <<2, 3, 0, 0>>) @@ (6 :> <<12, 1>>) }

PiexifLoadOutcomes ==
    { [threw |-> TRUE, zeroth |-> Null, gps |-> Null] }
    \cup [threw : {FALSE},
          zeroth : {Null} \cup {Some(d) : d \in ZerothInputs},
          gps : {Null} \cup {Some(d) : d \in GpsInputs}]

InitInject ==
    /\ input = [kind |-> "raw", parts |-> <<>>, cut |-> 0]
    /\ bytes = <<>>
    /\ pc = "idle"
    /\ format = Null
    /\ offset = 0
    /\ trail = <<>>
    /\ calls = <<>>
    /\ dpi = NullDpi
    /\ extras = NoExtras
    /\ probe = [dpi |-> "pending", exifr |-> "pending", walk |-> "pending",
                rejectedBy |-> "nothing"]
    /\ jpegBuffer \in {Some(e) : e \in PiexifLoadOutcomes}
    /\ fields \in FieldInputs
    /\ existingExif = Null
    /\ exifObj = NoExifObj
    /\ result = Null
    /\ ipc = "piexif.load"
    /\ applied = 0
    /\ ui = IdleUi
    /\ post = IdlePost

\* a faulty piexif.load step whose throw reaches the outer catch: injectExif
\* returns null without writing anything
PiexifLoadAborting ==
    /\ ipc = "piexif.load"
    /\ existingExif' = jpegBuffer
    /\ IF jpegBuffer[1].threw
       THEN /\ ipc' = "returned"
            /\ UNCHANGED exifObj
       ELSE /\ ipc' = "update"
            /\ exifObj' = mergeExisting(jpegBuffer[1])
    /\ UNCHANGED <<jpegBuffer, fields, result, applied>>
    /\ UNCHANGED <<readVars, hostVars>>
\* const existingExif = piexif.load(dataUrl), with the copies made of its
\* '0th' and 'GPS', or the catch that starts fresh
PiexifLoad ==
    /\ ipc = "piexif.load"
    /\ existingExif' = jpegBuffer
    /\ exifObj' = mergeExisting(jpegBuffer[1])
    /\ ipc' = "update"
    /\ UNCHANGED <<jpegBuffer, fields, result, applied>>
    /\ UNCHANGED <<readVars, hostVars>>

\* the five conditional writes
UpdateFields ==
    /\ ipc = "update"
    /\ exifObj' = updateFields(exifObj, fields)
    /\ ipc' = "piexif.dump"
    /\ UNCHANGED <<jpegBuffer, fields, existingExif, result, applied>>
    /\ UNCHANGED <<readVars, hostVars>>

\* piexif.dump(exifObj) and piexif.insert: the new buffer is returned, or
\* either call throws and the outer catch returns null.  What the library
\* writes for exifObj is not part of this source; exifObj is the output
\* directory as far as injectExif decides it.
PiexifDumpInsert ==
    /\ ipc = "piexif.dump"
    /\ \E ok \in BOOLEAN : result' = IF ok THEN Some("buffer") ELSE Null
    /\ ipc' = "returned"
    /\ UNCHANGED <<jpegBuffer, fields, existingExif, exifObj, applied>>
    /\ UNCHANGED <<readVars, hostVars>>

\* what piexif.load answers for a buffer injectExif returned: the directories
\* that were dumped, the 0th one with the GPS pointer tag dump adds when there
\* is a GPS directory
piexifLoadDumped(obj) ==
    [threw |-> FALSE,
     zeroth |-> Some(IF obj.gps = EmptyDir THEN obj.zeroth ELSE Put(obj.zeroth, 34853, <<1>>)),
     gps |-> Some(obj.gps)]

\* injectExif(updated, {}) : the buffer a call returned is passed to another
\* call with no field supplied
Reapply ==
    /\ ipc = "returned"
    /\ result # Null
    /\ pc = "idle"
    /\ applied < MaxApplications
    /\ jpegBuffer' = Some(piexifLoadDumped(exifObj))
    /\ fields' = NoFields
    /\ existingExif' = Null
    /\ exifObj' = NoExifObj
    /\ result' = Null
    /\ ipc' = "piexif.load"
    /\ applied' = applied + 1
    /\ UNCHANGED <<readVars, hostVars>>

NextInject ==
    \/ PiexifLoad
    \/ UpdateFields
    \/ PiexifDumpInsert
    \/ Reapply

SpecInject == InitInject /\ [][NextInject]_vars

(***************************************************************************)
(* injectExif followed by the JPEG decoders: piexif.dump lays exifObj out  *)
(* as an Exif APP1 segment holding a big-endian TIFF region (IFD0, its     *)
(* entries in tag order, the GPS IFD behind it and tag 0x8825 pointing to  *)
(* it), and piexif.insert puts that segment right after SOI, in front of   *)
(* the segments the buffer already had.  extractMetadata then reads the    *)
(* returned buffer.                                                        *)
(***************************************************************************)
ZerothTags == <<271, 272, 274, 282, 283, 296, 305>>

GpsTags == <<0, 1, 2, 3, 4, 6>>

\* one IFD0 entry as dumped: ASCII for the strings, SHORT, RATIONAL
zerothEntry(tag, v) ==
    IF tag \in {ImageIFD_Make, ImageIFD_Model, ImageIFD_Software} THEN Ascii(tag, v)
    ELSE IF tag \in {274, 296} THEN Short(FALSE, tag, v[1])
    ELSE Rational(FALSE, tag, v[1], v[2])

\* one GPS entry as dumped: ASCII refs, three RATIONALs, BYTE x 4, RATIONAL
gpsIfdEntry(tag, v) ==
    IF tag \in {GPSIFD_GPSLatitudeRef, GPSIFD_GPSLongitudeRef} THEN Ascii(tag, v)
    ELSE IF tag \in {GPSIFD_GPSLatitude, GPSIFD_GPSLongitude} THEN Rationals3(FALSE, tag, v)
    ELSE IF tag = 0 THEN Entry(0, 1, 4, v, <<>>)
    ELSE Rational(FALSE, tag, v[1], v[2])

RECURSIVE dumpZeroth(_, _)
dumpZeroth(dir, tags) ==
    IF tags = <<>> THEN <<>>
    ELSE (IF Head(tags) \in DOMAIN dir
          THEN <<zerothEntry(Head(tags), dir[Head(tags)])>> ELSE <<>>)
         \o dumpZeroth(dir, Tail(tags))

RECURSIVE dumpGps(_, _)
dumpGps(dir, tags) ==
    IF tags = <<>> THEN <<>>
    ELSE (IF Head(tags) \in DOMAIN dir
          THEN <<gpsIfdEntry(Head(tags), dir[Head(tags)])>> ELSE <<>>)
         \o dumpGps(dir, Tail(tags))

\* const exifBytes = piexif.dump(exifObj);
piexifDump(obj) ==
    Tiff(OrderMM, 42, dumpZeroth(obj.zeroth, ZerothTags), dumpGps(obj.gps, GpsTags))

\* piexif.insert(exifBytes, dataUrl) for a buffer whose segments are `rest`
\* and hold no Exif APP1
piexifInsert(t, rest) == <<ExifSeg(t)>> \o rest

\* ---- the arguments and buffers of the round trip ----
Str_A == <<65>>
Str_Nikon == <<78, 105, 107, 111, 110>>

Number(v) == [type |-> "number", nan |-> FALSE, v |-> v]

\* latitudes in [-90, 90], in units of 0.0000001 degree
RoundTripLats ==
    {0, 593293000, -229068000, -900000000, -5, 599999999}

\* longitudes in [-180, 180], in units of 0.0000001 degree
RoundTripLons ==
    {180686000, -431729000, 1800000000, -1, 1234567895}

RoundTripFields ==
    [make : {Some(<<>>), Some(Str_A), Some(Str_Acme), Some(Str_Nikon), Some(<<65, 0, 66>>)},
     model : {Some(Str_X1), Some(<<233, 49, 32>>)},
     software : {Some(Str_GIMP)},
     lat : {Number(v) : v \in RoundTripLats},
     lon : {Number(v) : v \in RoundTripLons}]

\* piexif.load on a JPEG that carries no EXIF: empty directories, none, or a throw
NoExifLoadOutcomes ==
    { [threw |-> TRUE, zeroth |-> Null, gps |-> Null],
      [threw |-> FALSE, zeroth |-> Null, gps |-> Null],
      [threw |-> FALSE, zeroth |-> Some(EmptyDir), gps |-> Some(EmptyDir)] }

\* the segments of a JPEG that carries no EXIF
NoExifRests ==
    { <<PlainSeg(255, 219, 4, <<1, 2>>), PlainSeg(255, 218, 4, <<1, 2>>)>>,
      <<JfifSeg(1, 72, 72), PlainSeg(255, 218, 4, <<1, 2>>)>> }

InitRoundTrip ==
    /\ input = [kind |-> "raw", parts |-> <<>>, cut |-> 0]
    /\ bytes = <<>>
    /\ pc = "idle"
    /\ format = Null
    /\ offset = 0
    /\ trail = <<>>
    /\ calls = <<>>
    /\ dpi = NullDpi
    /\ extras = NoExtras
    /\ probe = [dpi |-> "pending", exifr |-> "pending", walk |-> "pending",
                rejectedBy |-> "nothing"]
    /\ jpegBuffer \in {Some(e) : e \in NoExifLoadOutcomes}
    /\ fields \in RoundTripFields
    /\ existingExif = Null
    /\ exifObj = NoExifObj
    /\ result = Null
    /\ ipc = "piexif.load"
    /\ applied = 0
    /\ ui = IdleUi
    /\ post = IdlePost

\* the buffer injectExif returned is handed to extractMetadata
ExtractFromResult ==
    /\ ipc = "returned"
    /\ result # Null
    /\ pc = "idle"
    /\ \E rest \in NoExifRests :
          input' = [kind |-> "jpeg", parts |-> piexifInsert(piexifDump(exifObj), rest),
                    cut |-> 0]
    /\ bytes' = FileBytes(input')
    /\ pc' = "detectFormat"
    /\ ipc' = "extracted"
    /\ UNCHANGED <<format, offset, trail, calls, dpi, extras, probe>>
    /\ UNCHANGED <<jpegBuffer, fields, existingExif, exifObj, result, applied>>
    /\ UNCHANGED hostVars

NextRoundTrip ==
    \/ PiexifLoad
    \/ UpdateFields
    \/ PiexifDumpInsert
    \/ ExtractFromResult
    \/ DetectFormat
    \/ DetectDpi
    \/ ParseJpegJfifDpi
    \/ ParseJpegExifDpi
    \/ DpiCatch
    \/ ExifrParse
    \/ ParseJpegExifExtras
    \/ GetImagePixelDimensions

SpecRoundTrip == InitRoundTrip /\ [][NextRoundTrip]_vars

(***************************************************************************)
(* injectExif on a buffer without EXIF, given coordinates only: the        *)
(* latitudes and longitudes degToDmsRational / degToDmsRationalLon turn    *)
(* into degrees, minutes and seconds, each with its negative.              *)
(***************************************************************************)
\* |latitude| in [0, 90] and |longitude| in [0, 180], in units of 0.0000001 degree
DmsLatMagnitudes ==
    { 0, 1, 5, 166666, 1000000, 9999999, 10000000, 12345678, 229068000, 593293000,
      599999999, 899999999, 900000000 }

DmsLonMagnitudes == { 0, 1, 180686000, 431729000, 1234567895, 1799999999, 1800000000 }

DmsLats == DmsLatMagnitudes \cup { -v : v \in DmsLatMagnitudes }

DmsLons == DmsLonMagnitudes \cup { -v : v \in DmsLonMagnitudes }

InitDms ==
    /\ input = [kind |-> "raw", parts |-> <<>>, cut |-> 0]
    /\ bytes = <<>>
    /\ pc = "idle"
    /\ format = Null
    /\ offset = 0
    /\ trail = <<>>
    /\ calls = <<>>
    /\ dpi = NullDpi
    /\ extras = NoExtras
    /\ probe = [dpi |-> "pending", exifr |-> "pending", walk |-> "pending",
                rejectedBy |-> "nothing"]
    /\ jpegBuffer = Some([threw |-> FALSE, zeroth |-> Some(EmptyDir), gps |-> Some(EmptyDir)])
    /\ \E la \in DmsLats, lo \in DmsLons :
          fields = [NoFields EXCEPT !.lat = Number(la), !.lon = Number(lo)]
    /\ existingExif = Null
    /\ exifObj = NoExifObj
    /\ result = Null
    /\ ipc = "piexif.load"
    /\ applied = 0
    /\ ui = IdleUi
    /\ post = IdlePost

SpecDms == InitDms /\ [][NextInject]_vars

(***************************************************************************)
(* extractMetadata over JPEG files that carry one metadata segment: TIFF   *)
(* regions and JFIF headers laid out field by field, among them the        *)
(* layouts the decoders' checks are there for.                             *)
(***************************************************************************)
\* APP0 as JFIF lays it out: 'JFIF\0', version (major, minor), density
\* units, X density, Y density, thumbnail width and height
JfifStdSeg(major, minor, units, x, y) ==
    Segment(255, 224, 16, Str_JFIF0 \o <<major, minor, units>> \o U16(FALSE, x)
                          \o U16(FALSE, y) \o <<0, 0>>,
            Some([units |-> units, x |-> x, y |-> y]), Null)

MakeAndResolution(le) == <<Ascii(271, Str_Acme)>> \o ResolutionIfd(le, 72, 1, 72, 1)

\* byte-order markers and magic numbers
TiffUnknownOrder == Tiff(<<88, 88>>, 42, MakeAndResolution(FALSE), GpsRio(FALSE))
TiffMixedOrder == Tiff(<<77, 73>>, 42, MakeAndResolution(FALSE), <<>>)
TiffBadMagicMM == Tiff(OrderMM, 43, MakeAndResolution(FALSE), <<>>)
TiffBadMagicII == Tiff(OrderII, 10752, MakeAndResolution(TRUE), <<>>)
TiffGoodMM == Tiff(OrderMM, 42, MakeAndResolution(FALSE), GpsRio(FALSE))
TiffGoodII == Tiff(OrderII, 42, MakeAndResolution(TRUE), GpsStockholm(TRUE))

\* value offsets with the high bit set: 0xFFFFFFEE and 0xFFFFFFFA
TiffResolutionBeforeRegion ==
    Tiff(OrderMM, 42, <<Entry(282, 5, 1, U32(FALSE, -18), <<>>),
                        Entry(283, 5, 1, U32(FALSE, -18), <<>>),
                        Ascii(305, Str_GIMP)>>, <<>>)
TiffMakeBeforeRegion ==
    Tiff(OrderMM, 42, <<Entry(271, 2, 5, U32(FALSE, -6), <<>>), Ascii(272, Str_X1)>>, <<>>)
\* a value offset past the end of the region, then a tag that fits
TiffMakePastRegion ==
    Tiff(OrderMM, 42, <<Entry(271, 2, 5, U32(FALSE, 4096), <<>>),
                        Entry(282, 5, 1, U32(FALSE, 4096), <<>>),
                        Ascii(272, Str_X1)>>, <<>>)

\* GPS directories: numerator 0xFFFFFFF4, denominator 0, no refs, other refs
GpsHighBitMinutes ==
    <<Ascii(1, <<78>>), Rationals3(FALSE, 2, <<<<0, 1>>, <<-12, 1>>, <<0, 1>>>>),
      Ascii(3, <<69>>), Rationals3(FALSE, 4, <<<<18, 1>>, <<4, 1>>, <<6960, 1000>>>>)>>
GpsZeroDenominator ==
    <<Ascii(1, <<83>>), Rationals3(FALSE, 2, <<<<22, 1>>, <<54, 0>>, <<24480, 1000>>>>),
      Ascii(3, <<87>>), Rationals3(FALSE, 4, <<<<43, 0>>, <<10, 1>>, <<22440, 1000>>>>)>>
GpsNoRefs ==
    <<Rationals3(FALSE, 2, <<<<22, 1>>, <<54, 1>>, <<24480, 1000>>>>),
      Rationals3(FALSE, 4, <<<<43, 1>>, <<10, 1>>, <<22440, 1000>>>>)>>
GpsLowerCaseRefs ==
    <<Ascii(1, <<115>>), Rationals3(FALSE, 2, <<<<22, 1>>, <<54, 1>>, <<24480, 1000>>>>),
      Ascii(3, <<119>>), Rationals3(FALSE, 4, <<<<43, 1>>, <<10, 1>>, <<22440, 1000>>>>)>>

DecoderTiffMenu ==
    { TiffUnknownOrder, TiffMixedOrder, TiffBadMagicMM, TiffBadMagicII, TiffGoodMM,
      TiffGoodII, TiffResolutionBeforeRegion, TiffMakeBeforeRegion, TiffMakePastRegion,
      Tiff(OrderMM, 42, <<>>, GpsHighBitMinutes),
      Tiff(OrderMM, 42, <<>>, GpsZeroDenominator),
      Tiff(OrderMM, 42, <<>>, GpsNoRefs),
      Tiff(OrderMM, 42, <<>>, GpsLowerCaseRefs) }

\* IFD0 directories for the ResolutionUnit tag: absent, SHORT or LONG, in
\* front of or behind XResolution 118/1 and YResolution 120/1
UnitEntryMenu(le) ==
    { Short(le, 296, 2), Short(le, 296, 3), Short(le, 296, 1), Long(le, 296, 3),
      Long(le, 296, 5) }

ResolutionUnitIfds(le) ==
    { ResolutionIfd(le, 118, 1, 120, 1) }
    \cup { <<u>> \o ResolutionIfd(le, 118, 1, 120, 1) : u \in UnitEntryMenu(le) }
    \cup { ResolutionIfd(le, 118, 1, 120, 1) \o <<u>> : u \in UnitEntryMenu(le) }

ResolutionUnitTiffMenu ==
    { Tiff(OrderII, 42, d, <<>>) : d \in ResolutionUnitIfds(TRUE) }
    \cup { Tiff(OrderMM, 42, d, <<>>) : d \in ResolutionUnitIfds(FALSE) }
\* IFD0 directories for Make, Model and Software: strings in the value field
\* and behind an offset, with and without terminator, a count past the end of
\* the region, counts 0 and 0xFFFFFFFF, and types other than ASCII
AsciiIfds(le) ==
    { <<Ascii(271, Str_Acme), Ascii(272, Str_X1), Ascii(305, <<71, 73, 77>>)>>,
      <<Entry(271, 2, 2, <<65, 66, 67, 0>>, <<>>), Entry(272, 2, 4, <<65, 0, 67, 0>>, <<>>),
        Entry(305, 2, 1, <<0, 0, 0, 0>>, <<>>)>>,
      <<Entry(271, 2, 4, <<65, 66, 67, 68>>, <<>>),
        Entry(272, 7, 5, <<>>, Str_Acme \o <<0>>), Ascii(305, Str_GIMP)>>,
      <<Entry(271, 2, 0, <<65, 66, 0, 0>>, <<>>), Entry(272, 2, -1, <<65, 0, 0, 0>>, <<>>),
        Entry(305, 2, 50, <<>>, Str_GIMP)>>,
      <<Entry(271, 2, 6, <<>>, <<65, 0, 66, 0, 67, 0>>), Short(le, 272, 7),
        Ascii(305, Str_GIMP)>> }

AsciiTiffMenu ==
    { Tiff(OrderII, 42, d, <<>>) : d \in AsciiIfds(TRUE) }
    \cup { Tiff(OrderMM, 42, d, <<>>) : d \in AsciiIfds(FALSE) }
\* IFD0 directories in which XResolution or YResolution cannot be used: one
\* of the two missing, type SHORT, count 2, a value offset past the region's
\* end, numerator 0, denominator 0
ResolutionFaultIfds(le) ==
    { <<Rational(le, 282, 72, 1)>>,
      <<Rational(le, 283, 72, 1)>>,
      <<Entry(282, 3, 1, U16(le, 72) \o <<0, 0>>, <<>>), Rational(le, 283, 72, 1)>>,
      <<Rational(le, 282, 72, 1),
        Entry(283, 5, 2, <<>>, U32(le, 72) \o U32(le, 1) \o U32(le, 72) \o U32(le, 1))>>,
      <<Entry(282, 5, 1, U32(le, 4096), <<>>), Rational(le, 283, 72, 1)>>,
      <<Rational(le, 282, 0, 1), Rational(le, 283, 72, 1)>>,
      <<Rational(le, 282, 72, 1), Rational(le, 283, 72, 0)>> }

ResolutionFaultTiffMenu ==
    { Tiff(OrderII, 42, d, <<>>) : d \in ResolutionFaultIfds(TRUE) }
    \cup { Tiff(OrderMM, 42, d, <<>>) : d \in ResolutionFaultIfds(FALSE) }
\* GPS directories with one coordinate only, with a coordinate of two
\* rationals or of another type, and with coordinates that are exactly 0
GpsPairIfds(le) ==
    { <<Ascii(1, <<78>>), Rationals3(le, 2, <<<<59, 1>>, <<19, 1>>, <<45480, 1000>>>>)>>,
      <<Ascii(3, <<69>>), Rationals3(le, 4, <<<<18, 1>>, <<4, 1>>, <<6960, 1000>>>>)>>,
      <<Ascii(1, <<78>>), Rationals3(le, 2, <<<<0, 1>>, <<0, 1>>, <<0, 1>>>>),
        Ascii(3, <<69>>), Rationals3(le, 4, <<<<18, 1>>, <<4, 1>>, <<6960, 1000>>>>)>>,
      <<Rationals3(le, 2, <<<<0, 1>>, <<0, 1>>, <<0, 1000>>>>),
        Rationals3(le, 4, <<<<0, 1>>, <<0, 1>>, <<0, 1000>>>>)>>,
      <<Entry(2, 5, 2, <<>>, U32(le, 59) \o U32(le, 1) \o U32(le, 19) \o U32(le, 1)),
        Rationals3(le, 4, <<<<18, 1>>, <<4, 1>>, <<6960, 1000>>>>)>>,
      <<Rationals3(le, 2, <<<<59, 1>>, <<19, 1>>, <<45480, 1000>>>>),
        Entry(4, 10, 3, <<>>, U32(le, 18) \o U32(le, 1) \o U32(le, 4) \o U32(le, 1)
                              \o U32(le, 6960) \o U32(le, 1000))>> }

GpsPairTiffMenu ==
    { Tiff(OrderII, 42, <<>>, g) : g \in GpsPairIfds(TRUE) }
    \cup { Tiff(OrderMM, 42, <<>>, g) : g \in GpsPairIfds(FALSE) }
DecoderSegmentMenu ==
    { ExifSeg(t) : t \in DecoderTiffMenu \cup ResolutionUnitTiffMenu \cup AsciiTiffMenu
                        \cup ResolutionFaultTiffMenu \cup GpsPairTiffMenu }
    \cup { JfifStdSeg(1, 1, 1, 72, 72), JfifStdSeg(1, 2, 2, 28, 118),
           JfifStdSeg(1, 1, 0, 1, 1), JfifStdSeg(2, 1, 1, 300, 300),
           JfifSeg(1, 72, 72), JfifSeg(2, 28, 118), JfifSeg(0, 72, 72), JfifSeg(3, 72, 72) }

SegDqt == PlainSeg(255, 219, 4, <<1, 2>>)
SegSos == PlainSeg(255, 218, 4, <<1, 2>>)
\* a DQT segment whose 8 payload bytes read as the RATIONAL 96 / 1
SegRational96 == PlainSeg(255, 219, 10, <<0, 0, 0, 96, 0, 0, 0, 1>>)

\* the segment alone, behind a DQT segment, in front of SOS, in front of a
\* JFIF header the source reads as 96 dpi
DecoderInputs ==
    UNION { { <<g>>, <<SegDqt, g>>, <<SegRational96, g>>, <<g, SegSos>>,
              <<g, JfifSeg(1, 96, 96)>> } :
            g \in DecoderSegmentMenu }

InitDecoders ==
    /\ \E p \in DecoderInputs : input = [kind |-> "jpeg", parts |-> p, cut |-> 0]
    /\ bytes = FileBytes(input)
    /\ pc = "detectFormat"
    /\ format = Null
    /\ offset = 0
    /\ trail = <<>>
    /\ calls = <<>>
    /\ dpi = NullDpi
    /\ extras = NoExtras
    /\ probe = [dpi |-> "pending", exifr |-> "pending", walk |-> "pending",
                rejectedBy |-> "nothing"]
    /\ jpegBuffer = Null
    /\ fields = NoFields
    /\ existingExif = Null
    /\ exifObj = NoExifObj
    /\ result = Null
    /\ ipc = "idle"
    /\ applied = 0
    /\ ui = IdleUi
    /\ post = IdlePost

\* extractMetadata on a file detectFormat names JPEG
NextJpeg ==
    \/ DetectFormat
    \/ DetectDpi
    \/ ParseJpegJfifDpi
    \/ ParseJpegExifDpi
    \/ DpiCatch
    \/ ExifrParse
    \/ ParseJpegExifExtras
    \/ GetImagePixelDimensions

SpecDecoders == InitDecoders /\ [][NextJpeg]_vars

\* ---- JPEG files laid out from segments the walks' loop conditions and
\* size arithmetic distinguish ----
MaxWalkSegs == 2    \* segments laid out after SOI

WalkSegmentMenu ==
    { SegDqt, SegSos,
      PlainSeg(255, 219, 0, <<>>),                           \* size field 0
      PlainSeg(255, 219, 65535, <<1, 2>>),                   \* size far past the end
      PlainSeg(0, 0, 0, <<>>),                               \* no 0xFF where a marker is due
      JfifSeg(1, 72, 72), JfifSeg(0, 1, 1),
      ExifSeg(Tiff(OrderMM, 42, <<>>, <<>>)) }               \* an empty IFD0

InitWalks ==
    /\ \E p \in SeqsUpTo(WalkSegmentMenu, MaxWalkSegs), c \in Cuts :
          input = [kind |-> "jpeg", parts |-> p, cut |-> c]
    /\ bytes = FileBytes(input)
    /\ pc = "detectFormat"
    /\ format = Null
    /\ offset = 0
    /\ trail = <<>>
    /\ calls = <<>>
    /\ dpi = NullDpi
    /\ extras = NoExtras
    /\ probe = [dpi |-> "pending", exifr |-> "pending", walk |-> "pending",
                rejectedBy |-> "nothing"]
    /\ jpegBuffer = Null
    /\ fields = NoFields
    /\ existingExif = Null
    /\ exifObj = NoExifObj
    /\ result = Null
    /\ ipc = "idle"
    /\ applied = 0
    /\ ui = IdleUi
    /\ post = IdlePost

\* extractMetadata runs on: an await resumes, a loop takes its next iteration
SpecWalks == InitWalks /\ [][NextJpeg]_vars /\ WF_vars(NextJpeg)

(***************************************************************************)
(* ImageInspector: handleFile, started by onPick / onDrop for every file   *)
(* chosen.  Up to its await it runs in one piece; the continuation behind  *)
(* `await extractMetadata(f)` runs when that call's promise settles, and   *)
(* the promises of several calls settle in any order.  ui.pending holds    *)
(* the calls whose promise has not settled; ui.settled and ui.selections   *)
(* record what happened, to state the claims.  Numbers shown in the form   *)
(* are strings of char codes.                                              *)
(***************************************************************************)
RECURSIVE Digits(_)
Digits(n) == IF n < 10 THEN <<48 + n>> ELSE Digits(n \div 10) \o <<48 + (n % 10)>>

\* the decimals of f millionths, without trailing zeros (f in 1..999999)
RECURSIVE Fraction(_, _)
Fraction(f, width) ==
    IF f % 10 = 0 THEN Fraction(f \div 10, width - 1)
    ELSE [i \in 1..(width - Len(Digits(f))) |-> 48] \o Digits(f)

\* String(n) for a number n of v millionths
NumberToString(v) ==
    (IF v < 0 THEN <<45>> ELSE <<>>)
    \o Digits(Abs(v) \div 1000000)
    \o (IF Abs(v) % 1000000 = 0 THEN <<>> ELSE <<46>> \o Fraction(Abs(v) % 1000000, 6))

\* the files the user chooses among, and what extractMetadata resolves to for each
InspectorFiles == {"a.jpg", "b.jpg", "c.png"}

ExtractedFrom(f) ==
    CASE f = "a.jpg" ->
           [format |-> "JPEG", make |-> Some(Str_Acme), model |-> Some(Str_X1),
            software |-> Null, gpsLatitude |-> Some(59329300), gpsLongitude |-> Some(18068600)]
      [] f = "b.jpg" ->
           [format |-> "JPEG", make |-> Null, model |-> Null, software |-> Null,
            gpsLatitude |-> Null, gpsLongitude |-> Null]
      [] OTHER ->
           [format |-> "PNG", make |-> Some(<<>>), model |-> Null, software |-> Some(Str_GIMP),
            gpsLatitude |-> Some(0), gpsLongitude |-> Some(-43172900)]

\* m.make || ''
StringOrEmpty(v) == IF TruthyString(v) THEN v[1] ELSE <<>>

\* m.gpsLatitude != null ? String(m.gpsLatitude) : ''
CoordinateOrEmpty(v) == IF v # Null THEN NumberToString(v[1]) ELSE <<>>

\* handleFile up to `await extractMetadata(f)`
HandleFile ==
    /\ ui.selections < MaxSelections
    /\ \E f \in InspectorFiles :
          ui' = [ui EXCEPT !.error = Null,
                           !.loading = TRUE,
                           !.file = Some(f),
                           !.previewUrl = Some(ui.selections + 1),
                           !.pending = @ \cup {[call |-> ui.selections + 1, file |-> f]},
                           !.selections = @ + 1,
                           !.settled = Append(@, "pending")]
    /\ UNCHANGED <<readVars, writeVars, post>>

\* the try block behind the await, then finally: the promise of one call resolved
ExtractionResolves ==
    /\ \E c \in ui.pending :
          \E m \in {ExtractedFrom(c.file)} :
              ui' = [ui EXCEPT !.metadata = Some(m),
                               !.exifMake = StringOrEmpty(m.make),
                               !.exifModel = StringOrEmpty(m.model),
                               !.exifSoftware = StringOrEmpty(m.software),
                               !.exifLat = CoordinateOrEmpty(m.gpsLatitude),
                               !.exifLon = CoordinateOrEmpty(m.gpsLongitude),
                               !.loading = FALSE,
                               !.pending = @ \ {c},
                               !.settled[c.call] = "resolved"]
    /\ UNCHANGED <<readVars, writeVars, post>>

\* catch, then finally: the promise of one call rejected
ExtractionRejects ==
    /\ \E c \in ui.pending :
          ui' = [ui EXCEPT !.error = Some("Failed to read image metadata"),
                           !.loading = FALSE,
                           !.pending = @ \ {c},
                           !.settled[c.call] = "rejected"]
    /\ UNCHANGED <<readVars, writeVars, post>>

InitInspector ==
    /\ input = [kind |-> "raw", parts |-> <<>>, cut |-> 0]
    /\ bytes = <<>>
    /\ pc = "idle"
    /\ format = Null
    /\ offset = 0
    /\ trail = <<>>
    /\ calls = <<>>
    /\ dpi = NullDpi
    /\ extras = NoExtras
    /\ probe = [dpi |-> "pending", exifr |-> "pending", walk |-> "pending",
                rejectedBy |-> "nothing"]
    /\ jpegBuffer = Null
    /\ fields = NoFields
    /\ existingExif = Null
    /\ exifObj = NoExifObj
    /\ result = Null
    /\ ipc = "idle"
    /\ applied = 0
    /\ ui = IdleUi
    /\ post = IdlePost

NextInspector ==
    \/ HandleFile
    \/ ExtractionResolves
    \/ ExtractionRejects

SpecInspector == InitInspector /\ [][NextInspector]_vars

(***************************************************************************)
(* POST of /api/export/jpeg: the handler from request.formData() to the    *)
(* Response it returns.  Each await and each library call either answers   *)
(* or throws; a throw outside the two inner try blocks reaches the outer   *)
(* catch.  The call of injectExif runs the actions PiexifLoad,             *)
(* UpdateFields and PiexifDumpInsert on the arguments POST builds.  A form *)
(* value is Null where form.get answers null, else a string of char codes. *)
(***************************************************************************)
Str_593293 == <<53, 57, 46, 51, 50, 57, 51>>     \* "59.3293"
Str_m431729 == <<45, 52, 51, 46, 49, 55, 50, 57>> \* "-43.1729"
Str_abc == <<97, 98, 99>>

RECURSIVE DigitsValue(_)
DigitsValue(s) ==
    IF s = <<>> THEN 0 ELSE DigitsValue(SubSeq(s, 1, Len(s) - 1)) * 10 + (s[Len(s)] - 48)

\* Number(s) of an unsigned decimal string s with at most one '.', in units
\* of 0.0000001; NaN when another character occurs
UnsignedToNumber(s) ==
    IF s = <<>> \/ \E i \in 1..Len(s) : s[i] \notin (48..57) \cup {46}
    THEN [type |-> "number", nan |-> TRUE, v |-> 0]
    ELSE IF \A i \in 1..Len(s) : s[i] # 46
    THEN [type |-> "number", nan |-> FALSE, v |-> DigitsValue(s) * 10000000]
    ELSE LET d == CHOOSE i \in 1..Len(s) : s[i] = 46 IN
         IF \E i \in (d + 1)..Len(s) : s[i] = 46
         THEN [type |-> "number", nan |-> TRUE, v |-> 0]
         ELSE [type |-> "number", nan |-> FALSE,
               v |-> DigitsValue(SubSeq(s, 1, d - 1)) * 10000000
                     + DigitsValue(SubSeq(SubSeq(s, d + 1, Len(s)) \o <<48, 48, 48, 48, 48, 48, 48>>,
                                          1, 7))]

\* Number(s) for a non-empty string s
StringToNumber(s) ==
    IF s[1] = 45
    THEN [UnsignedToNumber(Tail(s)) EXCEPT !.v = -@]
    ELSE UnsignedToNumber(s)

\* exifMake ? String(exifMake) : (originalExif?.Make ? String(originalExif.Make) : undefined)
fieldString(formValue, orig, origValue) ==
    IF TruthyString(formValue) THEN formValue
    ELSE IF orig # Null /\ TruthyString(origValue) THEN origValue
    ELSE Null

\* exifLat != null && exifLat !== '' ? Number(exifLat) : (originalExif?.latitude || undefined)
\* (exifr's degrees are kept in millionths, injectExif's in units of 0.0000001)
fieldCoordinate(formValue, orig, origValue) ==
    IF formValue # Null /\ formValue[1] # <<>> THEN StringToNumber(formValue[1])
    ELSE IF orig # Null /\ origValue # Null /\ origValue[1] # 0 THEN Number(origValue[1] * 10)
    ELSE [type |-> "undefined", nan |-> FALSE, v |-> 0]

\* !!(exifMake || exifModel || exifSoftware || exifLat || exifLon || originalExif)
hasExifUpdates(form, orig) ==
    \/ TruthyString(form.exifMake)
    \/ TruthyString(form.exifModel)
    \/ TruthyString(form.exifSoftware)
    \/ TruthyString(form.exifLat)
    \/ TruthyString(form.exifLon)
    \/ orig # Null

\* the second argument of injectExif
injectExifFields(form, orig) ==
    [make |-> fieldString(form.exifMake, orig, IF orig # Null THEN orig[1].Make ELSE Null),
     model |-> fieldString(form.exifModel, orig, IF orig # Null THEN orig[1].Model ELSE Null),
     software |-> fieldString(form.exifSoftware, orig,
                              IF orig # Null THEN orig[1].Software ELSE Null),
     lat |-> fieldCoordinate(form.exifLat, orig, IF orig # Null THEN orig[1].latitude ELSE Null),
     lon |-> fieldCoordinate(form.exifLon, orig, IF orig # Null THEN orig[1].longitude ELSE Null)]

\* the forms posted: form.get('file') is null, a string or a File
PostForms ==
    [file : {"absent", "string", "file"},
     exifMake : {Null, Some(<<>>), Some(Str_Acme)},
     exifModel : {Null},
     exifSoftware : {Null, Some(Str_GIMP)},
     exifLat : {Null, Some(<<>>), Some(Str_593293), Some(Str_abc)},
     exifLon : {Null, Some(Str_m431729)}]

\* exifr.parse(inputBuffer, ...) inside its own try: throws, nothing, an object
PostExifrOutcomes ==
    { [threw |-> TRUE, exif |-> Null],
      [threw |-> FALSE, exif |-> Null],
      [threw |-> FALSE, exif |-> Some(ExifObject(Some(Str_Old), Null, Null,
                                                Some(59329300), Some(18068600)))],
      [threw |-> FALSE, exif |-> Some(ExifObject(Null, Null, Null, Some(0), Null))] }

\* piexif.load on the buffer sharp produced
PostLoadOutcomes ==
    { [threw |-> TRUE, zeroth |-> Null, gps |-> Null],
      [threw |-> FALSE, zeroth |-> Some(EmptyDir), gps |-> Some(EmptyDir)],
      [threw |-> FALSE, zeroth |-> Some(ImageIFD_Make :> Str_Old), gps |-> Null] }

\* the Response of the outer catch
Failed(step) ==
    [post EXCEPT !.pc = "responded",
                 !.threwAt = Some(step),
                 !.response = Some([status |-> 500, contentType |-> "application/json",
                                    body |-> [error |-> "Failed to export JPEG"]])]

\* const form = await request.formData(); and the reads of the form
PostFormData ==
    /\ post.pc = "formData"
    /\ \E ok \in BOOLEAN :
          post' = IF ok THEN [post EXCEPT !.pc = "checkFile"] ELSE Failed("formData")
    /\ UNCHANGED <<readVars, writeVars, ui>>

\* if (!file || typeof file.arrayBuffer !== 'function') return 400
PostCheckFile ==
    /\ post.pc = "checkFile"
    /\ post' = IF post.form[1].file # "file"
               THEN [post EXCEPT !.pc = "responded",
                                 !.response = Some([status |-> 400,
                                                    contentType |-> "application/json",
                                                    body |-> [error |-> "Missing file"]])]
               ELSE [post EXCEPT !.pc = "arrayBuffer"]
    /\ UNCHANGED <<readVars, writeVars, ui>>

\* const array = await file.arrayBuffer();
PostArrayBuffer ==
    /\ post.pc = "arrayBuffer"
    /\ \E ok \in BOOLEAN :
          post' = IF ok THEN [post EXCEPT !.pc = "exifr.parse"] ELSE Failed("arrayBuffer")
    /\ UNCHANGED <<readVars, writeVars, ui>>

\* originalExif = await exifr.parse(...), a throw caught on the spot
PostExifrParse ==
    /\ post.pc = "exifr.parse"
    /\ \E o \in PostExifrOutcomes :
          post' = [post EXCEPT !.pc = "sharp",
                               !.originalExif = IF o.threw THEN Null ELSE o.exif]
    /\ UNCHANGED <<readVars, writeVars, ui>>

\* sharp(inputBuffer), resize, and output = await ....toBuffer()
PostSharp ==
    /\ post.pc = "sharp"
    /\ \E ok \in BOOLEAN :
          post' = IF ok
                  THEN [post EXCEPT !.pc = "hasExifUpdates",
                                    !.output = Some([image |-> "re-encoded", exif |-> Null])]
                  ELSE Failed("sharp")
    /\ UNCHANGED <<readVars, writeVars, ui>>

\* if (hasExifUpdates) { try { const updated = injectExif(output, {...}) ...:
\* injectExif is entered, or the call throws into the inner catch
PostInjectExifCall ==
    /\ post.pc = "hasExifUpdates"
    /\ IF ~hasExifUpdates(post.form[1], post.originalExif)
       THEN /\ post' = [post EXCEPT !.pc = "respond"]
            /\ UNCHANGED writeVars
       ELSE \E threw \in BOOLEAN :
               IF threw
               THEN /\ post' = [post EXCEPT !.pc = "respond", !.inject = "threw"]
                    /\ UNCHANGED writeVars
               ELSE /\ post' = [post EXCEPT !.pc = "injectExif", !.inject = "called"]
                    /\ \E e \in PostLoadOutcomes : jpegBuffer' = Some(e)
                    /\ fields' = injectExifFields(post.form[1], post.originalExif)
                    /\ existingExif' = Null
                    /\ exifObj' = NoExifObj
                    /\ result' = Null
                    /\ ipc' = "piexif.load"
                    /\ UNCHANGED applied
    /\ UNCHANGED <<readVars, ui>>

\* a faulty return that takes whatever injectExif answered as the output
PostInjectExifReturnUnchecked ==
    /\ post.pc = "injectExif"
    /\ ipc = "returned"
    /\ post' = IF result # Null
               THEN [post EXCEPT !.pc = "respond", !.inject = "buffer",
                                 !.output = Some([image |-> "re-encoded",
                                                  exif |-> Some(exifObj)])]
               ELSE [post EXCEPT !.pc = "respond", !.inject = "null", !.output = Null]
    /\ UNCHANGED <<readVars, writeVars, ui>>

\* injectExif returned: if (updated) { output = updated; }
PostInjectExifReturn ==
    /\ post.pc = "injectExif"
    /\ ipc = "returned"
    /\ post' = IF result # Null
               THEN [post EXCEPT !.pc = "respond", !.inject = "buffer",
                                 !.output = Some([image |-> "re-encoded",
                                                  exif |-> Some(exifObj)])]
               ELSE [post EXCEPT !.pc = "respond", !.inject = "null"]
    /\ UNCHANGED <<readVars, writeVars, ui>>

\* return new Response(output, { headers: { 'Content-Type': 'image/jpeg', ... } })
PostRespond ==
    /\ post.pc = "respond"
    /\ post' = [post EXCEPT !.pc = "responded",
                            !.response = Some([status |-> 200, contentType |-> "image/jpeg",
                                               body |-> post.output])]
    /\ UNCHANGED <<readVars, writeVars, ui>>

InitPost ==
    /\ input = [kind |-> "raw", parts |-> <<>>, cut |-> 0]
    /\ bytes = <<>>
    /\ pc = "idle"
    /\ format = Null
    /\ offset = 0
    /\ trail = <<>>
    /\ calls = <<>>
    /\ dpi = NullDpi
    /\ extras = NoExtras
    /\ probe = [dpi |-> "pending", exifr |-> "pending", walk |-> "pending",
                rejectedBy |-> "nothing"]
    /\ jpegBuffer = Null
    /\ fields = NoFields
    /\ existingExif = Null
    /\ exifObj = NoExifObj
    /\ result = Null
    /\ ipc = "idle"
    /\ applied = 0
    /\ ui = IdleUi
    /\ \E f \in PostForms : post = [IdlePost EXCEPT !.pc = "formData", !.form = Some(f)]

NextPost ==
    \/ PostFormData
    \/ PostCheckFile
    \/ PostArrayBuffer
    \/ PostExifrParse
    \/ PostSharp
    \/ PostInjectExifCall
    \/ PiexifLoad
    \/ UpdateFields
    \/ PiexifDumpInsert
    \/ PostInjectExifReturn
    \/ PostRespond

SpecPost == InitPost /\ [][NextPost]_vars

(***************************************************************************)
(* Properties of the read path.                                            *)
(***************************************************************************)
ProbesDone == pc \in {"getImagePixelDimensions", "resolved", "rejected"}

DpiReturned == probe.dpi = "returned"

IsDpi(x, y, source) == dpi = [dpiX |-> Some(x), dpiY |-> Some(y), dpiSource |-> Some(source)]

\* 0-based offset of chunk i in a laid-out PNG, of segment i in a laid-out JPEG
ChunkOffset(parts, i) == Len(PngBytes(SubSeq(parts, 1, i - 1)))
SegOffset(parts, i) == Len(JpegBytes(SubSeq(parts, 1, i - 1)))

WellFormedChunk(c) == c.declared = Len(c.data)
WellFormedSeg(g) == g.lead = 255 /\ g.size = Len(g.payload) + 2

NoRepeat(t) == \A i, j \in 1..Len(t) : i # j => t[i] # t[j]

\* C1: the PNG chunk walk terminates for every buffer; in particular, while
\* parsePngPhys runs, its offset never stays put and never comes back to a
\* value it had before (trail holds the offsets of the iterations so far).
C1_PngWalkOffsetNeverRepeats ==
    pc = "parsePngPhys" => NoRepeat(trail) /\ \A i \in 1..Len(trail) : trail[i] # offset

\* a TIFF region whose IFD0 is XResolution 300/1, YResolution 300/1,
\* ResolutionUnit SHORT 2
ExifDpi300Tiff(t) ==
    /\ t.order \in {OrderII, OrderMM}
    /\ t.magic = 42
    /\ t.gps = <<>>
    /\ t.ifd0 = ResolutionIfd(t.order = OrderII, 300, 1, 300, 1)
                \o <<Short(t.order = OrderII, 296, 2)>>

SkippedByDpiWalks(g) ==
    /\ WellFormedSeg(g)
    /\ g.marker # 218
    /\ g.tiff = Null
    /\ g.jfif = Null \/ g.jfif[1].units \notin {1, 2}

\* a well-formed JPEG without usable JFIF density whose first Exif APP1 is such
\* a region in the given byte order
ExifDpi300Input(order) ==
    /\ input.kind = "jpeg"
    /\ input.cut = 0
    /\ \E i \in 1..Len(input.parts) :
          /\ input.parts[i].tiff # Null
          /\ ExifDpi300Tiff(input.parts[i].tiff[1])
          /\ input.parts[i].tiff[1].order = order
          /\ \A j \in 1..(i - 1) : SkippedByDpiWalks(input.parts[j])
          /\ \A j \in (i + 1)..Len(input.parts) :
                input.parts[j].jfif = Null \/ input.parts[j].jfif[1].units \notin {1, 2}

\* C2: a JPEG whose Exif IFD0 holds XResolution = YResolution = 300/1 and
\* ResolutionUnit SHORT 2 is read as dpiX = dpiY = 300 with source
\* 'JPEG EXIF', in little-endian (II) and in big-endian (MM) byte order.
C2_ExifDpi300BothOrders ==
    (ExifDpi300Input(OrderII) \/ ExifDpi300Input(OrderMM)) /\ DpiReturned
        => IsDpi(30000, 30000, "JPEG EXIF")

\* a valid PNG whose first pHYs chunk is 3937 x 3937 pixels per meter
Phys3937Input ==
    /\ input.kind = "png"
    /\ input.cut = 0
    /\ \A i \in 1..Len(input.parts) : WellFormedChunk(input.parts[i])
    /\ \E i \in 1..Len(input.parts) :
          /\ input.parts[i] = PngChunk(9, Str_pHYs, PhysData(3937, 3937, 1))
          /\ \A j \in 1..(i - 1) : input.parts[j].type # Str_pHYs

\* C3 as stated: a valid PNG whose pHYs chunk has unit 1 and 3937 pixels per
\* meter on both axes is read as dpiX = dpiY = 99.99 with source 'PNG pHYs'.
C3_Phys3937Is9999 == Phys3937Input /\ DpiReturned => IsDpi(9999, 9999, "PNG pHYs")

\* C3 amended: a valid PNG whose pHYs chunk has unit 1 and 3937 pixels per
\* meter on both axes is read as dpiX = dpiY = 100 (3937 * 0.0254 = 99.9998,
\* rounded to two decimals) with source 'PNG pHYs'.
C3_Phys3937Is100 == Phys3937Input /\ DpiReturned => IsDpi(10000, 10000, "PNG pHYs")

C3_Witness == Phys3937Input /\ DpiReturned /\ Len(input.parts) = 2 /\ pc = "resolved"

Prefix(b, p) == Len(b) >= Len(p) /\ SubSeq(b, 1, Len(p)) = p

\* the format a buffer shorter than 8 bytes is given, read off its first bytes
ShortBufferFormat(b) ==
    IF Prefix(b, <<255, 216, 255>>) THEN "JPEG"
    ELSE IF Prefix(b, <<71, 73, 70, 56, 55, 97>>) \/ Prefix(b, <<71, 73, 70, 56, 57, 97>>)
    THEN "GIF"
    ELSE "Unknown"

\* C4 as stated: every buffer shorter than 8 bytes has format 'Unknown' and
\* dpiX, dpiY, dpiSource all null.
C4_ShortBufferUnknown ==
    Len(bytes) < 8 =>
        /\ format # Null => format = Some("Unknown")
        /\ probe.dpi # "pending" => dpi = NullDpi

\* C4 amended: a buffer shorter than 8 bytes has format 'JPEG' when it starts
\* with FF D8 FF, 'GIF' when it starts with GIF87a or GIF89a, and 'Unknown'
\* otherwise (every prefix of the PNG signature included); its dpiX, dpiY and
\* dpiSource are all null, and a DPI walk over it ends within its first
\* iteration, no read past the end of the buffer raising anything.
C4_ShortBufferFormat ==
    Len(bytes) < 8 =>
        /\ format # Null => format = Some(ShortBufferFormat(bytes))
        /\ probe.dpi # "pending" => dpi = NullDpi
        /\ pc \in DpiWalks => Len(trail) <= 1

C4_Witness ==
    /\ Len(bytes) \in 4..7
    /\ Prefix(bytes, <<137, 80, 78, 71>>)
    /\ format = Some("Unknown")
    /\ DpiReturned
    /\ pc = "resolved"

\* C5: dpiX and dpiY are each either null or strictly positive.
C5_DpiNullOrPositive ==
    /\ dpi.dpiX = Null \/ dpi.dpiX[1] > 0
    /\ dpi.dpiY = Null \/ dpi.dpiY[1] > 0

\* a JFIF APP0 with density unit 1 or 2 that the walk reaches before any SOS
\* and that lies wholly inside the buffer
UsableJfifAt(i) ==
    /\ input.parts[i].jfif # Null
    /\ input.parts[i].jfif[1].units \in {1, 2}
    /\ SegOffset(input.parts, i) + 14 <= Len(bytes)
    /\ \A j \in 1..(i - 1) : WellFormedSeg(input.parts[j]) /\ input.parts[j].marker # 218

UsableJfifInput == input.kind = "jpeg" /\ \E i \in 1..Len(input.parts) : UsableJfifAt(i)

\* C6: for a JPEG, the JFIF walk runs first and the EXIF DPI decoder is called
\* only after the JFIF walk returned no result; when a JFIF APP0 with density
\* unit 1 or 2 is found before SOS the DPI source is 'JPEG JFIF' and the EXIF
\* DPI decoder is never called, whatever the Exif segments of the file say.
C6_JfifBeforeExif ==
    /\ \A i \in 1..Len(calls) :
          calls[i] = "parseJpegExifDpi" =>
              /\ i = 2
              /\ calls[1] = "parseJpegJfifDpi"
              /\ dpi.dpiSource # Some("JPEG JFIF")
              /\ ~UsableJfifInput
    /\ UsableJfifInput /\ DpiReturned =>
          /\ dpi.dpiSource = Some("JPEG JFIF")
          /\ \A i \in 1..Len(calls) : calls[i] # "parseJpegExifDpi"

C6_Witness ==
    /\ UsableJfifInput
    /\ \E i \in 1..Len(input.parts) :
          input.parts[i].tiff # Null /\ ExifDpi300Tiff(input.parts[i].tiff[1])
    /\ DpiReturned
    /\ dpi.dpiSource = Some("JPEG JFIF")
    /\ pc = "resolved"

\* the unit byte of chunk i as the walk reads it (Undefined past the end)
PhysUnitRead(i) == At(bytes, ChunkOffset(input.parts, i) + 16)

\* the first pHYs chunk the walk meets is chunk i, and it does not convert
FirstPhysFailsAt(i) ==
    /\ input.parts[i].type = Str_pHYs
    /\ ChunkOffset(input.parts, i) + 8 <= Len(bytes)
    /\ \A j \in 1..(i - 1) :
          WellFormedChunk(input.parts[j]) /\ input.parts[j].type # Str_pHYs
    /\ input.parts[i].declared < 9 \/ PhysUnitRead(i) # 1

FirstPhysFailsInput ==
    input.kind = "png" /\ \E i \in 1..Len(input.parts) : FirstPhysFailsAt(i)

\* a later pHYs chunk that would convert, had the walk gone on
LaterPhysConverts ==
    input.kind = "png" /\ \E i \in 1..Len(input.parts) : \E k \in (i + 1)..Len(input.parts) :
        /\ FirstPhysFailsAt(i)
        /\ input.parts[k].type = Str_pHYs
        /\ input.parts[k].declared >= 9
        /\ input.cut = 0
        /\ input.parts[k].data[9] = 1

\* C7: the PNG walk decides on the first pHYs chunk it meets: when that chunk
\* declares fewer than 9 bytes or its unit is not 1, the result is null even
\* if a later pHYs chunk would convert.
C7_FirstPhysDecides == FirstPhysFailsInput /\ DpiReturned => dpi = NullDpi

C7_Witness == LaterPhysConverts /\ DpiReturned /\ dpi = NullDpi /\ pc = "resolved"

\* C8: in the returned record exifPresent is undefined only when the EXIF
\* probe failed (exifr threw, or the fallback walk aborted); when the probe
\* completed and found no EXIF data exifPresent is false, for every format.
C8_ExifPresentUndefinedOnlyOnFailure ==
    pc = "resolved" =>
        /\ extras.exifPresent = Null => probe.exifr = "threw" \/ probe.walk = "aborted"
        /\ probe.exifr = "nothing" /\ probe.walk # "aborted"
              => extras.exifPresent = Some(FALSE)

\* C9: a failure in one probe neither fails the extraction nor touches the
\* other probe.  The promise is rejected by the pixel-dimension probe only;
\* after an exception in detectDpi the DPI fields are all null and the EXIF
\* probe still runs; after an exception in exifr.parse a JPEG is walked by
\* parseJpegExifExtras and any other format gets no extras; and once
\* detectDpi has returned, its result is never changed.
C9_ProbesIsolated ==
    /\ [](/\ pc = "rejected" => probe.rejectedBy = "getImagePixelDimensions"
          /\ probe.dpi = "threw" => dpi = NullDpi
          /\ ProbesDone => probe.dpi # "pending" /\ probe.exifr # "pending"
          /\ ProbesDone /\ probe.exifr = "threw" =>
                IF format = Some("JPEG")
                THEN /\ probe.walk # "pending"
                     /\ probe.walk = "completed" => extras.exifPresent # Null
                     /\ probe.walk = "aborted" => extras = NoExtras
                ELSE probe.walk = "pending" /\ extras = NoExtras)
    /\ [][probe.dpi # "pending" => dpi' = dpi /\ probe'.dpi = probe.dpi]_vars

C9_Witness ==
    /\ pc = "resolved"
    /\ probe.dpi = "threw"
    /\ probe.exifr = "threw"
    /\ probe.walk = "completed"
    /\ extras.make = Some(Str_Acme)
    /\ dpi = NullDpi

(***************************************************************************)
(* Properties of the write path.                                           *)
(***************************************************************************)
\* the directory that existed before the call (empty when none did)
PreExisting0th ==
    IF existingExif[1].threw \/ existingExif[1].zeroth = Null THEN EmptyDir
    ELSE existingExif[1].zeroth[1]

PreExistingGps ==
    IF existingExif[1].threw \/ existingExif[1].gps = Null THEN EmptyDir
    ELSE existingExif[1].gps[1]

\* on the given tags, out has the entries of pre and no others
SameEntries(pre, out, tags) ==
    \A t \in tags :
        /\ t \in DOMAIN out <=> t \in DOMAIN pre
        /\ t \in DOMAIN pre => out[t] = pre[t]

StringNotSupplied(v) == v = Null \/ v[1] = <<>>

CoordinateNotSupplied(c) == c.type # "number" \/ c.nan

Merged == ipc \in {"piexif.dump", "returned"}

\* C10: injectExif overwrites only the fields supplied.  For Make, Model,
\* Software, GPS latitude (ref and triple) and GPS longitude (ref and triple):
\* when the field is not supplied (undefined, empty string, a non-number or
\* NaN coordinate) its entry in the output directory (the exifObj handed to
\* piexif.dump) is the pre-existing entry, and is absent when there was none;
\* every other pre-existing IFD0 and GPS entry is carried over unchanged, and
\* nothing else is added.
C10_OnlySuppliedFieldsOverwritten ==
    Merged =>
        /\ StringNotSupplied(fields.make)
              => SameEntries(PreExisting0th, exifObj.zeroth, {ImageIFD_Make})
        /\ StringNotSupplied(fields.model)
              => SameEntries(PreExisting0th, exifObj.zeroth, {ImageIFD_Model})
        /\ StringNotSupplied(fields.software)
              => SameEntries(PreExisting0th, exifObj.zeroth, {ImageIFD_Software})
        /\ CoordinateNotSupplied(fields.lat)
              => SameEntries(PreExistingGps, exifObj.gps,
                             {GPSIFD_GPSLatitudeRef, GPSIFD_GPSLatitude})
        /\ CoordinateNotSupplied(fields.lon)
              => SameEntries(PreExistingGps, exifObj.gps,
                             {GPSIFD_GPSLongitudeRef, GPSIFD_GPSLongitude})
        /\ SameEntries(PreExisting0th, exifObj.zeroth,
                       (DOMAIN PreExisting0th \cup DOMAIN exifObj.zeroth)
                           \ {ImageIFD_Make, ImageIFD_Model, ImageIFD_Software})
        /\ SameEntries(PreExistingGps, exifObj.gps,
                       (DOMAIN PreExistingGps \cup DOMAIN exifObj.gps)
                           \ {GPSIFD_GPSLatitudeRef, GPSIFD_GPSLatitude,
                              GPSIFD_GPSLongitudeRef, GPSIFD_GPSLongitude})

C10_Witness ==
    /\ ipc = "returned"
    /\ result # Null
    /\ fields.make = Some(<<>>)
    /\ fields.model = Some(Str_X1)
    /\ fields.lat.nan
    /\ fields.lon.type = "number" /\ fields.lon.v = 593293000
    /\ ImageIFD_Make \in DOMAIN PreExisting0th
    /\ GPSIFD_GPSLatitude \in DOMAIN PreExistingGps
    /\ 6 \in DOMAIN PreExistingGps
    /\ exifObj.zeroth[ImageIFD_Make] = Str_Old
    /\ exifObj.zeroth[ImageIFD_Model] = Str_X1
    /\ exifObj.gps[GPSIFD_GPSLongitude] = <<<<59, 1>>, <<19, 1>>, <<45480, 1000>>>>

(***************************************************************************)
(* Properties of injectExif followed by the decoders.                      *)
(***************************************************************************)
\* the walk over the returned buffer decoded its Exif segment
RoundTripDecoded == ipc = "extracted" /\ probe.walk = "completed"

\* the decoded coordinate (millionths) is within 0.000001 degree of the input
\* (units of 0.0000001 degree) and on the side its sign gives
CoordinateRoundTrips(decoded, c) ==
    /\ decoded # Null
    /\ Abs(decoded[1] * 10 - c.v) <= 10
    /\ (c.v < 0 => decoded[1] <= 0)
    /\ (c.v >= 0 => decoded[1] >= 0)

RefsMatchSigns ==
    /\ exifObj.gps[GPSIFD_GPSLatitudeRef] = (IF fields.lat.v < 0 THEN <<83>> ELSE <<78>>)
    /\ exifObj.gps[GPSIFD_GPSLongitudeRef] = (IF fields.lon.v < 0 THEN <<87>> ELSE <<69>>)

CoordinatesRoundTrip ==
    /\ CoordinateRoundTrips(extras.gpsLatitude, fields.lat)
    /\ CoordinateRoundTrips(extras.gpsLongitude, fields.lon)
    /\ RefsMatchSigns

\* a string injectExif writes and the decoder reads back whole: not empty, no NUL
WritableString(v) == v # Null /\ v[1] # <<>> /\ \A i \in 1..Len(v[1]) : v[1][i] # 0

Reapplied == applied >= 1 /\ ipc \in {"piexif.dump", "returned"}

\* the directories of the buffer the current call was given
Given0th == jpegBuffer[1].zeroth[1]
GivenGps == jpegBuffer[1].gps[1]

\* C12: injectExif with no field supplied, applied to a buffer injectExif
\* produced, leaves Make, Model, Software, the GPS refs and the DMS
\* rationals as they were; so does every further application.
C12_ReapplyingChangesNothing ==
    Reapplied =>
        /\ fields = NoFields
        /\ SameEntries(Given0th, exifObj.zeroth,
                       {ImageIFD_Make, ImageIFD_Model, ImageIFD_Software})
        /\ SameEntries(GivenGps, exifObj.gps,
                       {GPSIFD_GPSLatitudeRef, GPSIFD_GPSLatitude,
                        GPSIFD_GPSLongitudeRef, GPSIFD_GPSLongitude})

C12_Witness ==
    /\ applied = 2
    /\ ipc = "returned"
    /\ result # Null
    /\ {ImageIFD_Make, ImageIFD_Software} \subseteq DOMAIN exifObj.zeroth
    /\ {GPSIFD_GPSLatitudeRef, GPSIFD_GPSLatitude, GPSIFD_GPSLongitude}
           \subseteq DOMAIN exifObj.gps
    /\ exifObj.zeroth[ImageIFD_Make] = Str_Acme
    /\ exifObj.zeroth[ImageIFD_Software] = Str_Old
    /\ exifObj.gps[GPSIFD_GPSLatitudeRef] = <<83>>
    /\ exifObj.gps[GPSIFD_GPSLatitude] = dmsTriple(229068000)
    /\ exifObj.gps[GPSIFD_GPSLongitude] = dmsTriple(593293000)

(***************************************************************************)
(* Properties of injectExif when piexif.load throws.                       *)
(***************************************************************************)
LoadThrew == existingExif # Null /\ existingExif[1].threw

\* the 0th and GPS tags of the fields the call supplies: non-empty strings,
\* numbers that are not NaN
Supplied0thTags ==
    {t \in {ImageIFD_Make, ImageIFD_Model, ImageIFD_Software} :
        \/ t = ImageIFD_Make /\ ~StringNotSupplied(fields.make)
        \/ t = ImageIFD_Model /\ ~StringNotSupplied(fields.model)
        \/ t = ImageIFD_Software /\ ~StringNotSupplied(fields.software)}

SuppliedGpsTags ==
    (IF CoordinateNotSupplied(fields.lat) THEN {}
     ELSE {GPSIFD_GPSLatitudeRef, GPSIFD_GPSLatitude})
    \cup (IF CoordinateNotSupplied(fields.lon) THEN {}
          ELSE {GPSIFD_GPSLongitudeRef, GPSIFD_GPSLongitude})

\* exifObj holds the supplied fields and nothing else
ExactlySupplied ==
    /\ DOMAIN exifObj.zeroth = Supplied0thTags
    /\ DOMAIN exifObj.gps = SuppliedGpsTags
    /\ ImageIFD_Make \in Supplied0thTags => exifObj.zeroth[ImageIFD_Make] = fields.make[1]
    /\ ImageIFD_Model \in Supplied0thTags => exifObj.zeroth[ImageIFD_Model] = fields.model[1]
    /\ ImageIFD_Software \in Supplied0thTags
           => exifObj.zeroth[ImageIFD_Software] = fields.software[1]
    /\ GPSIFD_GPSLatitude \in SuppliedGpsTags
           => /\ exifObj.gps[GPSIFD_GPSLatitudeRef] = (IF fields.lat.v < 0 THEN <<83>> ELSE <<78>>)
              /\ exifObj.gps[GPSIFD_GPSLatitude] = dmsTriple(fields.lat.v)
    /\ GPSIFD_GPSLongitude \in SuppliedGpsTags
           => /\ exifObj.gps[GPSIFD_GPSLongitudeRef] = (IF fields.lon.v < 0 THEN <<87>> ELSE <<69>>)
              /\ exifObj.gps[GPSIFD_GPSLongitude] = dmsTriple(fields.lon.v)

\* C13 as stated: when piexif.load throws, injectExif continues from empty
\* directories, applies the supplied fields and returns a buffer whose
\* directory holds exactly the supplied fields.
C13_LoadFailureReturnsBuffer ==
    LoadThrew =>
        /\ ipc = "update" => exifObj = NoExifObj
        /\ ipc = "returned" => result # Null /\ ExactlySupplied

\* C13, amended: when piexif.load throws, injectExif continues from empty
\* directories and applies the supplied fields, so the directory handed to
\* piexif.dump holds exactly the supplied fields; the buffer is returned
\* unless piexif.dump or piexif.insert throws, and then the result is null.
C13_LoadFailureStartsEmpty ==
    LoadThrew =>
        /\ ipc = "update" => exifObj = NoExifObj
        /\ ipc \in {"piexif.dump", "returned"} => ExactlySupplied
        /\ result # Null => ipc = "returned"

C13_Witness ==
    /\ LoadThrew
    /\ ipc = "returned"
    /\ result # Null
    /\ fields.make = Some(Str_Acme)
    /\ fields.model = Null
    /\ fields.software = Some(<<>>)
    /\ fields.lat.type = "number" /\ ~fields.lat.nan /\ fields.lat.v = 593293000
    /\ fields.lon.nan
    /\ exifObj.zeroth = (ImageIFD_Make :> Str_Acme)
    /\ DOMAIN exifObj.gps = {GPSIFD_GPSLatitudeRef, GPSIFD_GPSLatitude}

(***************************************************************************)
(* Properties of the TIFF decoders.                                        *)
(***************************************************************************)
\* the file is a JPEG laid out whole whose first segment is an Exif APP1
FirstSegIsExif ==
    /\ input.kind = "jpeg"
    /\ input.cut = 0
    /\ Len(input.parts) >= 1
    /\ input.parts[1].tiff # Null

FirstTiff == input.parts[1].tiff[1]

\* nothing decoded from the TIFF region: no EXIF density, no EXIF field
NothingFromTiff ==
    /\ DpiReturned => dpi.dpiSource # Some("JPEG EXIF")
    /\ probe.walk = "completed" =>
          /\ extras.make = Null
          /\ extras.model = Null
          /\ extras.software = Null
          /\ extras.gpsLatitude = Null
          /\ extras.gpsLongitude = Null

\* C14: readExifDpi and readExifGeneral yield nothing when the byte-order
\* marker is neither 'II' nor 'MM', and when the magic number read in the
\* region's byte order is not 42.
C14_UnknownOrderOrMagicFails ==
    FirstSegIsExif /\ (FirstTiff.order \notin {OrderII, OrderMM} \/ FirstTiff.magic # 42)
        => NothingFromTiff

\* entry e of TIFF region t addresses its value by an offset, and the value's
\* extent is not inside the region
OutOfRegion(t, e) ==
    /\ e.inline # <<>>
    /\ e.type = 5 \/ (e.type = 2 /\ e.count > 4)
    /\ LET vo == readUint32(e.inline, 0, t.order = OrderII)
           extent == IF e.type = 5 THEN 8 * e.count ELSE e.count
       IN  vo < 0 \/ vo + extent > Len(TiffBytes(t))

\* C15: the TIFF decoders read no byte outside the TIFF region, whatever the
\* offsets and counts (32-bit values with the high bit set included): a value
\* whose extent leaves the region is skipped, so its tag is not decoded, and
\* the remaining tags are still decoded.
C15_ReadsStayInsideRegion ==
    FirstSegIsExif /\ FirstTiff.order \in {OrderII, OrderMM} /\ FirstTiff.magic = 42
        => \A k \in 1..Len(FirstTiff.ifd0) :
              /\ OutOfRegion(FirstTiff, FirstTiff.ifd0[k]) =>
                    /\ FirstTiff.ifd0[k].tag = 271
                          => (probe.walk = "completed" => extras.make = Null)
                    /\ FirstTiff.ifd0[k].tag \in {282, 283}
                          => (DpiReturned => dpi.dpiSource # Some("JPEG EXIF"))
              /\ FirstTiff.ifd0[k] = Ascii(272, Str_X1)
                    => (probe.walk = "completed" => extras.model = Some(Str_X1))

(***************************************************************************)
(* Properties of detectFormat.                                             *)
(***************************************************************************)
PngPrefix == <<137, 80, 78, 71>>

\* the buffer starts with none of the signatures detectFormat knows
NoSignature(b) ==
    /\ ~Prefix(b, PngPrefix)
    /\ ~Prefix(b, <<255, 216, 255>>)
    /\ ~(Len(b) >= 12 /\ SubSeq(b, 9, 12) = Str_WEBP)
    /\ ~Prefix(b, <<71, 73, 70, 56, 55, 97>>)
    /\ ~Prefix(b, <<71, 73, 70, 56, 57, 97>>)

\* C16 as stated: detectFormat returns PNG if and only if the first 4 bytes
\* are 89 50 4E 47, for buffers of every length, lengths 4 to 7 included;
\* a buffer matching no signature yields Unknown.
C16_PngIffFourBytePrefix ==
    format # Null =>
        /\ format = Some("PNG") <=> Prefix(bytes, PngPrefix)
        /\ NoSignature(bytes) => format = Some("Unknown")

\* C16, amended: detectFormat returns PNG if and only if the buffer has at
\* least 8 bytes and its first 4 bytes are 89 50 4E 47 (bytes 4 to 7 are not
\* compared); a buffer of 4 to 7 bytes with that prefix yields Unknown, and
\* so does every buffer matching no signature.
C16_PngIffPrefixAndEightBytes ==
    format # Null =>
        /\ format = Some("PNG") <=> (Len(bytes) >= 8 /\ Prefix(bytes, PngPrefix))
        /\ Len(bytes) < 8 /\ Prefix(bytes, PngPrefix) => format = Some("Unknown")
        /\ NoSignature(bytes) => format = Some("Unknown")

C16_Witness ==
    /\ bytes = <<137, 80, 78, 71, 1, 2, 3, 4, 5>>
    /\ format = Some("PNG")
    /\ dpi = NullDpi
    /\ pc = "resolved"

(***************************************************************************)
(* Properties of the GPS decode.                                           *)
(***************************************************************************)
\* the GPS directory of the file's first segment, and its entry for a tag
FirstGps == FirstTiff.gps

HasGpsEntry(e) == \E k \in 1..Len(FirstGps) : FirstGps[k] = e

\* the walk decoded the GPS directory of a big-endian region in the first segment
GpsDecoded ==
    /\ FirstSegIsExif
    /\ FirstTiff.order = OrderMM
    /\ FirstTiff.magic = 42
    /\ probe.walk = "completed"

\* C17: the decoded coordinate is degrees + minutes/60 + seconds/3600 (a
\* rational with denominator 0 counting as 0) rounded to 6 decimals, negated
\* exactly when its reference is 'S' or 'W'; a missing or other reference
\* letter leaves it positive.
C17_DmsFormulaSignedByRef ==
    GpsDecoded /\ extras.gpsLatitude # Null /\ extras.gpsLongitude # Null =>
        /\ HasGpsEntry(Ascii(1, <<83>>)) <=> extras.gpsLatitude[1] < 0
        /\ HasGpsEntry(Ascii(3, <<87>>)) <=> extras.gpsLongitude[1] < 0
        /\ FirstGps = GpsRio(FALSE) =>
              extras.gpsLatitude = Some(-22906800) /\ extras.gpsLongitude = Some(-43172900)
        /\ FirstGps = GpsLowerCaseRefs =>
              extras.gpsLatitude = Some(22906800) /\ extras.gpsLongitude = Some(43172900)
        /\ FirstGps = GpsNoRefs =>
              extras.gpsLatitude = Some(22906800) /\ extras.gpsLongitude = Some(43172900)
        /\ FirstGps = GpsZeroDenominator =>
              extras.gpsLatitude = Some(-22006800) /\ extras.gpsLongitude = Some(-172900)

(***************************************************************************)
(* Properties of the JPEG segment walks.                                   *)
(***************************************************************************)
JpegWalks == {"parseJpegJfifDpi", "parseJpegExifDpi", "parseJpegExifExtras"}

\* every iteration that went round again began inside the buffer and moved
\* the offset forward by 2 + size, size a 16-bit value; the iterations taken
\* are fewer than half the buffer's bytes, and the walk was never cut short
\* by the bound on the steps followed
WalkAdvances ==
    /\ \A i \in 1..Len(trail) : trail[i] >= 2 /\ trail[i] + 4 < Len(bytes)
    /\ \A i \in 1..(Len(trail) - 1) :
          trail[i + 1] >= trail[i] + 2 /\ trail[i + 1] <= trail[i] + 2 + 65535
    /\ Len(trail) >= 1 =>
          /\ offset >= trail[Len(trail)] + 2
          /\ offset <= trail[Len(trail)] + 2 + 65535
    /\ 2 * Len(trail) < Len(bytes)
    /\ Len(trail) < MaxSteps

\* C18: each JPEG segment walk terminates: every iteration that does not
\* return or break increases the offset by at least 2 (the size field is a
\* 16-bit value, 0 included), and the loop exits once offset + 4 reaches the
\* buffer length, even when a size points far past the end of the buffer.
C18_JpegWalksTerminate ==
    /\ [](pc \in JpegWalks => WalkAdvances)
    /\ \A w \in JpegWalks : (pc = w) ~> (pc # w)

\* a walk went over a segment whose size field is 0 and one whose size field
\* points far past the end, and returned
C18_Witness ==
    /\ input.kind = "jpeg"
    /\ input.cut = 0
    /\ input.parts = <<PlainSeg(255, 219, 4, <<1, 2>>), PlainSeg(255, 219, 65535, <<1, 2>>)>>
    /\ probe.walk = "completed"
    /\ extras.exifPresent = Some(FALSE)
    /\ pc = "resolved"

\* segment i of the file is SOS, and the walks skip every segment before it
SosAt(i) ==
    /\ input.parts[i].lead = 255
    /\ input.parts[i].marker = 218
    /\ \A j \in 1..(i - 1) : SkippedByDpiWalks(input.parts[j])

\* C19: each JPEG segment walk stops at the first SOS marker it reaches: no
\* segment after it is examined, so a JFIF or Exif segment placed after SOS
\* gives the record neither DPI nor EXIF fields.
C19_WalksStopAtSos ==
    input.kind = "jpeg" /\ input.cut = 0 =>
        \A i \in 1..Len(input.parts) :
            SosAt(i) =>
                /\ pc \in JpegWalks =>
                      /\ offset <= SegOffset(input.parts, i)
                      /\ \A k \in 1..Len(trail) : trail[k] < SegOffset(input.parts, i)
                /\ DpiReturned => dpi = NullDpi
                /\ probe.walk = "completed" =>
                      extras = [NoExtras EXCEPT !.exifPresent = Some(FALSE)]

C19_Witness ==
    /\ input.kind = "jpeg"
    /\ input.cut = 0
    /\ Len(input.parts) = 2
    /\ SosAt(1)
    /\ input.parts[2].tiff # Null
    /\ input.parts[2].tiff[1].ifd0 = <<Ascii(271, Str_Acme), Ascii(272, Str_X1)>>
    /\ DpiReturned
    /\ dpi = NullDpi
    /\ probe.walk = "completed"
    /\ extras.exifPresent = Some(FALSE)
    /\ extras.make = Null
    /\ pc = "resolved"

\* the file is a JPEG laid out whole whose first segment is a JFIF APP0
FirstSegIsJfif ==
    /\ input.kind = "jpeg"
    /\ input.cut = 0
    /\ Len(input.parts) >= 1
    /\ input.parts[1].jfif # Null

FirstJfif == input.parts[1].jfif[1]

\* C20: a JFIF APP0 with densities x and y gives dpiX = x, dpiY = y for
\* density unit 1 and round2(x * 2.54), round2(y * 2.54) for unit 2; for any
\* other unit it gives no DPI and the walk continues to the next segments.
C20_JfifDensityUnits ==
    FirstSegIsJfif /\ DpiReturned =>
        /\ FirstJfif.units = 1 => IsDpi(FirstJfif.x * 100, FirstJfif.y * 100, "JPEG JFIF")
        /\ FirstJfif.units = 2 => IsDpi(FirstJfif.x * 254, FirstJfif.y * 254, "JPEG JFIF")
        /\ FirstJfif.units \notin {1, 2} =>
              IF Len(input.parts) = 2 /\ input.parts[2] = JfifSeg(1, 96, 96)
              THEN IsDpi(9600, 9600, "JPEG JFIF")
              ELSE dpi = NullDpi

\* no segment of the file is a JFIF header
NoJfifSegment == \A j \in 1..Len(input.parts) : input.parts[j].jfif = Null

IsUnitEntry(e) == e.tag = 296

\* the value a TIFF reader finds in a SHORT or LONG entry
EntryValue(le, e) ==
    IF e.type = 3 THEN readUint16(e.inline, 0, le) ELSE readUint32(e.inline, 0, le)

\* the ResolutionUnit of an IFD0: the tag's value, 2 when the tag is absent
ResolutionUnitOf(t) ==
    IF SelectSeq(t.ifd0, IsUnitEntry) = <<>> THEN 2
    ELSE EntryValue(t.order = OrderII, SelectSeq(t.ifd0, IsUnitEntry)[1])

\* C21: with valid X/YResolution in IFD0, readExifDpi returns the resolutions
\* as they are when ResolutionUnit is absent (the unit defaults to 2) or 2,
\* multiplies both by 2.54 when ResolutionUnit is 3, and returns no DPI for
\* any other ResolutionUnit, whether the ResolutionUnit entry stands in front
\* of or behind the resolution entries.
C21_ResolutionUnitDecides ==
    FirstSegIsExif /\ FirstTiff \in ResolutionUnitTiffMenu /\ NoJfifSegment /\ DpiReturned
        => /\ ResolutionUnitOf(FirstTiff) = 2 => IsDpi(11800, 12000, "JPEG EXIF")
           /\ ResolutionUnitOf(FirstTiff) = 3 => IsDpi(29972, 30480, "JPEG EXIF")
           /\ ResolutionUnitOf(FirstTiff) \notin {2, 3} => dpi = NullDpi

\* the bytes of s in front of its first 0
UpToNul(s) ==
    IF \A i \in 1..Len(s) : s[i] # 0 THEN s
    ELSE SubSeq(s, 1, (CHOOSE i \in 1..Len(s) : s[i] = 0 /\ \A j \in 1..(i - 1) : s[j] # 0) - 1)

\* the region's bytes from the value of IFD0 entry k to the region's end
\* (values are laid out in entry order behind the directory)
RegionTail(t, k) == Flatten([i \in 1..(Len(t.ifd0) - k + 1) |-> t.ifd0[k + i - 1].data])

\* what an ASCII reader finds for IFD0 entry k of a region without GPS IFD
ExpectedAscii(t, k) ==
    IF t.ifd0[k].type # 2 \/ t.ifd0[k].count < 1 THEN Null
    ELSE IF t.ifd0[k].count <= 4
    THEN Some(UpToNul(SubSeq(t.ifd0[k].inline, 1, t.ifd0[k].count)))
    ELSE Some(UpToNul(SubSeq(RegionTail(t, k), 1,
                             Min(t.ifd0[k].count, Len(RegionTail(t, k))))))

\* the field decoded from the one IFD0 entry with the tag, when there is one
ExpectedField(t, tag) ==
    IF \A k \in 1..Len(t.ifd0) : t.ifd0[k].tag # tag THEN Null
    ELSE ExpectedAscii(t, CHOOSE k \in 1..Len(t.ifd0) : t.ifd0[k].tag = tag)

\* C22: readExifAscii decodes an ASCII entry as the null-terminated string in
\* the entry's own value field when the count is at most 4 and at
\* tiffStart + offset otherwise, reading at most min(count, bytes left in the
\* region) bytes; an entry of another type or with a count below 1 is
\* omitted, and the other tags are still decoded.  (Checked for values laid
\* out behind the directory, in both byte orders.)
C22_AsciiInlineOrOffset ==
    FirstSegIsExif /\ FirstTiff \in AsciiTiffMenu /\ probe.walk = "completed"
        => /\ extras.make = ExpectedField(FirstTiff, 271)
           /\ extras.model = ExpectedField(FirstTiff, 272)
           /\ extras.software = ExpectedField(FirstTiff, 305)

\* Make with count 0 and Model with count 0xFFFFFFFF were omitted, and
\* Software, declared 50 bytes long, was read up to the region's end
C22_Witness ==
    /\ FirstSegIsExif
    /\ FirstTiff.order = OrderMM
    /\ FirstTiff.ifd0 = <<Entry(271, 2, 0, <<65, 66, 0, 0>>, <<>>),
                          Entry(272, 2, -1, <<65, 0, 0, 0>>, <<>>),
                          Entry(305, 2, 50, <<>>, Str_GIMP)>>
    /\ Len(input.parts) = 2
    /\ input.parts[2] = SegSos
    /\ probe.walk = "completed"
    /\ extras.make = Null
    /\ extras.model = Null
    /\ extras.software = Some(Str_GIMP)
    /\ pc = "resolved"

(***************************************************************************)
(* Properties of the degrees, minutes and seconds written.                 *)
(***************************************************************************)
\* the coordinates of the first call have been written into the directories
CoordinatesWritten == ipc \in {"piexif.dump", "returned"} /\ applied = 0

\* triple is d / 1, m / 1, s / 1000 with d = floor(|deg|),
\* m = floor((|deg| - d) * 60) and s = round(((|deg| - d) * 60 - m) * 60 * 1000),
\* for deg = v * 0.0000001: each floor and the rounding (halves up) stated by
\* the two bounds that define it
IsDmsOf(triple, v) ==
    /\ triple[1][2] = 1
    /\ triple[2][2] = 1
    /\ triple[3][2] = 1000
    /\ triple[1][1] * 10000000 <= Abs(v)
    /\ Abs(v) < (triple[1][1] + 1) * 10000000
    /\ triple[2][1] * 10000000 <= (Abs(v) - triple[1][1] * 10000000) * 60
    /\ (Abs(v) - triple[1][1] * 10000000) * 60 < (triple[2][1] + 1) * 10000000
    /\ 2 * triple[3][1] * 10000
          <= 2 * ((Abs(v) - triple[1][1] * 10000000) * 60 - triple[2][1] * 10000000) * 60
             + 10000
    /\ 2 * ((Abs(v) - triple[1][1] * 10000000) * 60 - triple[2][1] * 10000000) * 60 + 10000
          < 2 * (triple[3][1] + 1) * 10000

\* C23: degToDmsRational / degToDmsRationalLon write d = floor(|deg|) over 1,
\* m = floor((|deg| - d) * 60) over 1 and round(((|deg| - d) * 60 - m) * 60 *
\* 1000) over 1000; the reference is 'S' / 'W' exactly when deg < 0 and
\* 'N' / 'E' otherwise, deg = 0 included; deg and -deg give the same rationals.
C23_DmsFormula ==
    CoordinatesWritten =>
        /\ IsDmsOf(exifObj.gps[GPSIFD_GPSLatitude], fields.lat.v)
        /\ IsDmsOf(exifObj.gps[GPSIFD_GPSLongitude], fields.lon.v)
        /\ exifObj.gps[GPSIFD_GPSLatitudeRef] = (IF fields.lat.v < 0 THEN <<83>> ELSE <<78>>)
        /\ exifObj.gps[GPSIFD_GPSLongitudeRef] = (IF fields.lon.v < 0 THEN <<87>> ELSE <<69>>)
        /\ exifObj.gps[GPSIFD_GPSLatitude] = degToDmsRational(-fields.lat.v).dms
        /\ exifObj.gps[GPSIFD_GPSLongitude] = degToDmsRationalLon(-fields.lon.v).dms

\* latitude -22.9068 and longitude 0 were written as 22 54' 24.48" S and
\* 0 0' 0" E
C23_Witness ==
    /\ CoordinatesWritten
    /\ fields.lat.v = -229068000
    /\ fields.lon.v = 0
    /\ exifObj.gps[GPSIFD_GPSLatitudeRef] = <<83>>
    /\ exifObj.gps[GPSIFD_GPSLatitude] = <<<<22, 1>>, <<54, 1>>, <<24480, 1000>>>>
    /\ exifObj.gps[GPSIFD_GPSLongitudeRef] = <<69>>
    /\ exifObj.gps[GPSIFD_GPSLongitude] = <<<<0, 1>>, <<0, 1>>, <<0, 1000>>>>
    /\ result # Null

\* minutes in 0..59 and seconds below 60 (numerator in 0..59999)
Canonical(triple) ==
    /\ triple[2][1] \in 0..59
    /\ triple[3][1] \in 0..59999

\* C28: the degrees, minutes and seconds degToDmsRational / degToDmsRationalLon
\* write are canonical for every latitude in [-90, 90] and every longitude in
\* [-180, 180]: minutes in 0..59 and seconds strictly below 60, the rounding
\* to 3 decimals never giving 60.000.
C28_DmsCanonical ==
    CoordinatesWritten =>
        /\ Canonical(exifObj.gps[GPSIFD_GPSLatitude])
        /\ Canonical(exifObj.gps[GPSIFD_GPSLongitude])

\* the file is a JPEG laid out whole, without JFIF header, whose one Exif
\* APP1 is a well-formed TIFF region the walks reach
OnlyExifReached ==
    /\ input.kind = "jpeg"
    /\ input.cut = 0
    /\ NoJfifSegment
    /\ \E i \in 1..Len(input.parts) :
          /\ input.parts[i].tiff # Null
          /\ input.parts[i].tiff[1].order \in {OrderII, OrderMM}
          /\ input.parts[i].tiff[1].magic = 42
          /\ \A j \in 1..(i - 1) : SkippedByDpiWalks(input.parts[j])

TheTiff == input.parts[CHOOSE i \in 1..Len(input.parts) : input.parts[i].tiff # Null].tiff[1]

\* entry e of region t does not give a resolution: not RATIONAL, count not 1,
\* value out of the region, numerator 0 or denominator 0
NoResolutionIn(t, e) ==
    \/ e.type # 5
    \/ e.count # 1
    \/ OutOfRegion(t, e)
    \/ /\ Len(e.data) = 8
       /\ \/ readUint32(e.data, 0, t.order = OrderII) = 0
          \/ readUint32(e.data, 4, t.order = OrderII) = 0

\* IFD0 of t has no entry with the tag, or its entries with the tag give no resolution
ResolutionUnusable(t, tag) ==
    \A k \in 1..Len(t.ifd0) : t.ifd0[k].tag = tag => NoResolutionIn(t, t.ifd0[k])

\* C24: readExifDpi returns a result only when XResolution and YResolution
\* were both decoded to non-zero values: when either tag is missing, is not a
\* RATIONAL of count 1, lies out of the region, or has numerator 0 or
\* denominator 0, there is no DPI and dpiSource is not the EXIF source.
C24_BothResolutionsNeeded ==
    OnlyExifReached /\ DpiReturned
        /\ (ResolutionUnusable(TheTiff, 282) \/ ResolutionUnusable(TheTiff, 283))
        => dpi = NullDpi

(***************************************************************************)
(* Properties of the record's DPI and GPS fields.                          *)
(***************************************************************************)
\* detectDpi has returned, from a parser or from its catch
DpiResolved == probe.dpi \in {"returned", "threw"}

\* C25: in every result of detectDpi, dpiX, dpiY and dpiSource are all null
\* or all non-null; 'PNG pHYs' occurs only for format PNG, 'JPEG JFIF' and
\* 'JPEG EXIF' only for format JPEG; for WEBP, GIF and Unknown all three are
\* null.
C25_DpiAllOrNoneAndBySource ==
    DpiResolved =>
        /\ \/ dpi = NullDpi
           \/ dpi.dpiX # Null /\ dpi.dpiY # Null /\ dpi.dpiSource # Null
        /\ dpi.dpiSource \in {Null, Some("PNG pHYs"), Some("JPEG JFIF"), Some("JPEG EXIF")}
        /\ dpi.dpiSource = Some("PNG pHYs") => format = Some("PNG")
        /\ dpi.dpiSource \in {Some("JPEG JFIF"), Some("JPEG EXIF")} => format = Some("JPEG")
        /\ format \in {Some("WEBP"), Some("GIF"), Some("Unknown")} => dpi = NullDpi

\* a JPEG was given DPI values and the EXIF source together
C25_Witness ==
    /\ DpiResolved
    /\ format = Some("JPEG")
    /\ dpi.dpiSource = Some("JPEG EXIF")
    /\ dpi.dpiX = Some(30000)
    /\ dpi.dpiY = Some(30000)
    /\ pc = "resolved"

\* the GPS directory of t holds the coordinate as at least three RATIONALs
HasCoordinate(t, tag) ==
    \E k \in 1..Len(t.gps) :
        t.gps[k].tag = tag /\ t.gps[k].type = 5 /\ t.gps[k].count >= 3

\* C26: in every result of the built-in EXIF extras decoder gpsLatitude is
\* present exactly when gpsLongitude is (a GPS directory with one coordinate
\* gives neither), and gpsPresent is true only when both are present, a
\* coordinate that is exactly 0 counting as present.
C26_GpsBothOrNeither ==
    probe.walk = "completed" =>
        /\ extras.gpsLatitude # Null <=> extras.gpsLongitude # Null
        /\ extras.gpsPresent = Some(TRUE) <=> extras.gpsLatitude # Null
        /\ extras.gpsPresent \in {Null, Some(TRUE)}
        /\ FirstSegIsExif /\ FirstTiff \in GpsPairTiffMenu =>
              (extras.gpsLatitude # Null
                  <=> HasCoordinate(FirstTiff, 2) /\ HasCoordinate(FirstTiff, 4))

\* latitude 0 0' 0" and longitude 18 4' 6.96" were decoded as 0 and 18.0686
\* and reported as present
C26_Witness ==
    /\ FirstSegIsExif
    /\ FirstTiff \in GpsPairTiffMenu
    /\ probe.walk = "completed"
    /\ extras.gpsLatitude = Some(0)
    /\ extras.gpsLongitude = Some(18068600)
    /\ extras.gpsPresent = Some(TRUE)
    /\ pc = "resolved"

(***************************************************************************)
(* Properties of the order of detectFormat's tests.                        *)
(***************************************************************************)
\* the four signatures, each on its own
HasPngSignature(b) == Len(b) >= 8 /\ Prefix(b, PngPrefix)
HasJpegSignature(b) == Prefix(b, <<255, 216, 255>>)
HasWebpSignature(b) == Len(b) >= 12 /\ SubSeq(b, 9, 12) = Str_WEBP
HasGifSignature(b) == Prefix(b, <<71, 73, 70, 56, 55, 97>>) \/ Prefix(b, <<71, 73, 70, 56, 57, 97>>)

\* C30 as stated: a buffer that starts with the JPEG, the PNG or the GIF
\* signature and also has 'WEBP' at bytes 8-11 is classified by its leading
\* signature, never as WEBP.
C30_LeadingSignatureWins ==
    format # Null /\ HasWebpSignature(bytes) =>
        /\ HasPngSignature(bytes) => format = Some("PNG")
        /\ HasJpegSignature(bytes) => format = Some("JPEG")
        /\ HasGifSignature(bytes) => format = Some("GIF")

\* C30, amended: detectFormat tests the signatures in the order PNG, JPEG,
\* WEBP, GIF and returns the first match, one format for every buffer: with
\* 'WEBP' at bytes 8-11 a buffer that starts with the PNG or the JPEG
\* signature is classified by that signature, and a buffer that starts with
\* the GIF signature is classified WEBP.
C30_FirstMatchInOrder ==
    format # Null =>
        /\ format \in {Some("PNG"), Some("JPEG"), Some("WEBP"), Some("GIF"), Some("Unknown")}
        /\ format = Some("PNG") <=> HasPngSignature(bytes)
        /\ format = Some("JPEG") <=> ~HasPngSignature(bytes) /\ HasJpegSignature(bytes)
        /\ format = Some("WEBP") <=>
              ~HasPngSignature(bytes) /\ ~HasJpegSignature(bytes) /\ HasWebpSignature(bytes)
        /\ format = Some("GIF") <=>
              /\ ~HasPngSignature(bytes) /\ ~HasJpegSignature(bytes)
              /\ ~HasWebpSignature(bytes) /\ HasGifSignature(bytes)

\* 'GIF87a' with 'WEBP' at bytes 8-11 was classified WEBP
C30_Witness ==
    /\ bytes = <<71, 73, 70, 56, 55, 97, 1, 0, 87, 69, 66, 80>>
    /\ format = Some("WEBP")
    /\ pc = "resolved"

(***************************************************************************)
(* Properties of ImageInspector.                                           *)
(***************************************************************************)
\* the form fields are those filled in from metadata m
FormShows(m) ==
    /\ ui.exifMake = StringOrEmpty(m.make)
    /\ ui.exifModel = StringOrEmpty(m.model)
    /\ ui.exifSoftware = StringOrEmpty(m.software)
    /\ ui.exifLat = CoordinateOrEmpty(m.gpsLatitude)
    /\ ui.exifLon = CoordinateOrEmpty(m.gpsLongitude)

\* C27: after any sequence of file selections, once no extraction is pending
\* (and the one of the most recently selected file resolved) the metadata
\* and the EXIF form fields shown are those of the most recently selected
\* file; and loading is true whenever an extraction is still pending.
C27_LatestSelectionShown ==
    /\ ui.selections >= 1 /\ ui.pending = {} /\ ui.settled[ui.selections] = "resolved"
          => /\ ui.metadata = Some(ExtractedFrom(ui.file[1]))
             /\ FormShows(ExtractedFrom(ui.file[1]))
    /\ ui.pending # {} => ui.loading

(***************************************************************************)
(* C29: in POST a failure of EXIF injection never fails the request: when  *)
(* injectExif returns null or throws, the response has status 200 and its  *)
(* body is the JPEG sharp re-encoded before injection; a request with no   *)
(* file is answered with status 400 and any other exception with status    *)
(* 500, and in those two cases the body is a JSON error and no image.      *)
(***************************************************************************)
ReEncoded == Some([image |-> "re-encoded", exif |-> Null])

IsErrorResponse(r, status) ==
    /\ r.status = status
    /\ r.contentType = "application/json"
    /\ DOMAIN r.body = {"error"}

C29_InjectionNeverFailsRequest ==
    post.pc = "responded" =>
        /\ post.inject \in {"null", "threw"} =>
              /\ post.response[1].status = 200
              /\ post.response[1].contentType = "image/jpeg"
              /\ post.response[1].body = ReEncoded
        /\ post.threwAt = Null /\ post.form[1].file # "file" =>
              IsErrorResponse(post.response[1], 400)
        /\ post.threwAt # Null => IsErrorResponse(post.response[1], 500)
        /\ post.response[1].status \in {200, 400, 500}
        /\ post.response[1].status = 200 =>
              /\ post.threwAt = Null
              /\ post.form[1].file = "file"
              /\ post.response[1].body # Null

C29_Witness ==
    /\ post.pc = "responded"
    /\ post.inject = "null"
    /\ ipc = "returned"
    /\ result = Null
    /\ fields.make = Some(Str_Acme)
    /\ post.response[1].status = 200
    /\ post.response[1].body = ReEncoded

=============================================================================
